---- MODULE Spec2Model ----
(***************************************************************************)
(* A model of the interactive control core of tg, the terminal Telegram    *)
(* client: the chat store and the message store of tg/models.py, the       *)
(* update handlers of tg/update_handlers.py, the key reader of             *)
(* tg/views.py and the command dispatcher, the commands and the draw       *)
(* queue of tg/controllers.py.                                             *)
(*                                                                         *)
(* Python dicts are functions over their keys, lists are sequences (list   *)
(* index i is sequence index i + 1), None is 0 where an id is expected. The *)
(* Messaging Provider (tdlib) is the environment: its replies and its      *)
(* push updates are drawn from small sets.                                 *)
(***************************************************************************)
EXTENDS Integers, Sequences, FiniteSets, TLC

VARIABLES
    chats,                \* ChatModel.chats: the active list
    inactive_chats,       \* ChatModel.inactive_chats: chat id -> chat
    chat_ids,             \* ChatModel.chat_ids
    have_full_chat_list,  \* ChatModel.have_full_chat_list
    current_chat,         \* Model.current_chat: an index into chats
    msgs,                 \* MsgModel.msgs: chat id -> (msg id -> msg)
    msg_ids,              \* MsgModel.msg_ids: chat id -> list of msg ids
    current_msgs,         \* MsgModel.current_msgs: chat id -> cursor
    queue,                \* Controller.queue: closures waiting for the draw loop
    is_running,           \* Controller.is_running
    h,                    \* ChatView.h = MsgView.h, set by _resize
    status,               \* what StatusView.draw drew last
    mode,                 \* the input thread: "init", in handle(chat_handler), in handle(msg_handler), "quit"
    keys,                 \* View.get_keys: the key buffer of the call in progress
    repeat_factor,        \* View.get_keys: the digits of the call in progress
    nread,                \* View.get_keys: the iterations of its loop already done
    typing,               \* write_short_msg waiting in get_input: its chat_id, or None
    tg_calls,             \* the MP calls issued by the last step, in order
    fetched,              \* the last step's MsgModel.fetch_msgs: [offset, limit, msgs returned]
    dispatched,           \* what the key loop dispatched last: [fun, repeat_factor]
    selected,             \* Model.selected: chat id -> list of msg ids
    copied_msgs,          \* Model.copied_msgs: <<from_chat_id, msg_ids>>
    downloads,            \* Model.downloads: file id -> <<chat_id, msg_id>>
    not_found,            \* MsgModel.not_found: msg ids get_message failed on
    upd,                  \* an update thread inside update_message_send_succeeded: <<message, old_message_id>>, or <<>>
    chat_size,            \* Controller.chat_size, in tenths of the width
    long_msg,             \* reply_with_long_message at its editor: the replied text, the file and what was sent
    truncated,            \* a call of utils.truncate_to_len: its string, its width and what it returned
    fetched_chats,        \* a call of ChatModel.fetch_chats: its offset, its limit and what it returned
    chat_upd,             \* an update thread inside a chat update handler: the current_chat_id it read and its update, or <<>>
    store_ops,            \* the draw thread and an update thread inside ChatModel.add_chat: where each is, its chat and its sorted list
    found_chat_idx,       \* ChatModel.found_chat_idx
    found_chats,          \* ChatModel.found_chats: the chat ids of the last search
    suspending,           \* the key thread is inside the body of a with suspend(view)
    view,                 \* View: the refresh primitive of each pane (_refresh) and resize_handler
    caught                \* the loop whose except clause ran in the last step: "draw", "key", "update" or ""

chatVars == <<chats, inactive_chats, chat_ids, have_full_chat_list, current_chat>>
msgVars == <<msgs, msg_ids, current_msgs>>
ctlVars == <<queue, is_running, h, status>>
inputVars == <<mode, keys, repeat_factor, nread, typing>>
histVars == <<tg_calls, fetched, dispatched>>
callVars == <<truncated, fetched_chats, view, suspending, found_chats, found_chat_idx, store_ops, chat_upd>>
extVars == <<selected, copied_msgs, downloads, not_found, upd, long_msg, callVars>>
vars == <<chatVars, msgVars, ctlVars, inputVars, histVars, extVars, chat_size, caught>>

\* ------------------------------------------------------------------ bounds

MaxChatId == 2      \* chat ids are 1..MaxChatId
MaxOrder == 2       \* chat orders are 0..MaxOrder
MaxReplyLen == 1    \* the longest chat_ids page get_chats returns
MaxQueue == 2       \* closures waiting in the queue (enqueuing steps wait above it)
Rows == 4           \* the terminal's height, as getmaxyx reports it
MaxRepeat == 2      \* the largest repeat factor typed before a key
MaxMsgId == 2       \* message ids are 1..MaxMsgId
MaxPageLen == 2     \* the longest page get_chat_history returns
MaxCursor == 2      \* prev_msg is not typed with the cursor above this
MaxIndexLen == 4    \* no new message arrives while the index is longer than this

ChatIds == 1..MaxChatId
Orders == 0..MaxOrder
MsgIds == 1..MaxMsgId

\* Python's None where an id or an index is expected (no id and no index is 0 here:
\* `if not chat_id` and `chat_id is None` then agree, as they do for real chat ids).
None == 0

\* A call of the MP: the method, the chat it is about, its argument list, and
\* for the blocking calls the kind of reply.
Call(method, chat_id, arg, reply) ==
    [method |-> method, chat_id |-> chat_id, arg |-> arg, reply |-> reply]

\* ------------------------------------------------------------------ Python helpers

Max(a, b) == IF a >= b THEN a ELSE b
Min(a, b) == IF a <= b THEN a ELSE b

\* dict.update(u): the keys of u are set, the others kept.
DictUpdate(d, u) ==
    [k \in DOMAIN d \cup DOMAIN u |-> IF k \in DOMAIN u THEN u[k] ELSE d[k]]

\* del d[k] / d.pop(k, None)
DictRemove(d, k) == [x \in DOMAIN d \ {k} |-> d[x]]

\* s[a:b] for a list s: negative bounds count from the end, all are clamped.
PyIndex(n, i) == IF i < 0 THEN Max(n + i, 0) ELSE Min(i, n)
PySlice(s, a, b) ==
    LET lo == PyIndex(Len(s), a)
        hi == PyIndex(Len(s), b)
    IN  IF hi <= lo THEN <<>> ELSE SubSeq(s, lo + 1, hi)

\* ------------------------------------------------------------------ ChatModel

\* The sort key (it["order"], it["id"]), compared as Python compares tuples.
ChatKeyGreater(a, b) ==
    \/ a["order"] > b["order"]
    \/ a["order"] = b["order"] /\ a["id"] > b["id"]

RECURSIVE InsertChat(_, _)
InsertChat(c, s) ==
    IF s = <<>> THEN <<c>>
    ELSE IF ChatKeyGreater(c, Head(s)) THEN <<c>> \o s
    ELSE <<Head(s)>> \o InsertChat(c, Tail(s))

RECURSIVE SortPrefix(_, _)
SortPrefix(s, n) == IF n = 0 THEN <<>> ELSE InsertChat(s[n], SortPrefix(s, n - 1))

\* sorted(chats, key = (order, id), reverse = True): descending and stable.
_sort_chats(s) == SortPrefix(s, Len(s))

\* ChatModel.id_by_index
id_by_index(cs, index) == IF index >= Len(cs) THEN None ELSE cs[index + 1]["id"]

\* The three collections of a ChatModel, as one value cm.
ChatModelOf(cs, inact, ids) == [chats |-> cs, inactive_chats |-> inact, chat_ids |-> ids]

\* ChatModel.add_chat
add_chat(cm, chat) ==
    LET chat_id == chat["id"]
        order == IF Len(chat["positions"]) > 0 THEN chat["positions"][1]["order"] ELSE 0
        c == DictUpdate(chat, [order |-> order])
    IN  IF chat_id \in cm.chat_ids THEN cm
        ELSE IF c["order"] = 0
             THEN [cm EXCEPT !.inactive_chats = DictUpdate(@, chat_id :> c)]
             ELSE [cm EXCEPT !.chat_ids = @ \cup {chat_id},
                             !.chats = _sort_chats(Append(@, c))]

\* An update_chat that keeps the id of a chat it makes inactive in chat_ids.
UpdateChatKeepsId(cm, chat_id, updates) ==
    LET found == {i \in 1..Len(cm.chats) : cm.chats[i]["id"] = chat_id} IN
    IF found # {}
    THEN LET i == CHOOSE x \in found : \A y \in found : x <= y
             chat == DictUpdate(cm.chats[i], updates)
             updated == [cm.chats EXCEPT ![i] = chat]
         IN  IF chat["order"] = 0
             THEN [cm |-> [chats |-> SelectSeq(updated, LAMBDA c : c["id"] # chat_id),
                           inactive_chats |-> DictUpdate(cm.inactive_chats, chat_id :> chat),
                           chat_ids |-> cm.chat_ids],
                   ret |-> TRUE]
             ELSE [cm |-> [cm EXCEPT !.chats = _sort_chats(updated)], ret |-> TRUE]
    ELSE IF chat_id \in DOMAIN cm.inactive_chats
    THEN LET _chat == DictUpdate(cm.inactive_chats[chat_id], updates) IN
         IF _chat["order"] # 0
         THEN [cm |-> add_chat([cm EXCEPT !.inactive_chats = DictRemove(@, chat_id)], _chat),
               ret |-> TRUE]
         ELSE [cm |-> [cm EXCEPT !.inactive_chats = DictUpdate(@, chat_id :> _chat)],
               ret |-> FALSE]
    ELSE [cm |-> cm, ret |-> FALSE]

\* ChatModel.update_chat: the new collections and the value returned.
update_chat(cm, chat_id, updates) ==
    LET found == {i \in 1..Len(cm.chats) : cm.chats[i]["id"] = chat_id} IN
    IF found # {}
    THEN LET i == CHOOSE x \in found : \A y \in found : x <= y
             chat == DictUpdate(cm.chats[i], updates)
             updated == [cm.chats EXCEPT ![i] = chat]
         IN  IF chat["order"] = 0
             THEN [cm |-> [chats |-> SelectSeq(updated, LAMBDA c : c["id"] # chat_id),
                           inactive_chats |-> DictUpdate(cm.inactive_chats, chat_id :> chat),
                           chat_ids |-> cm.chat_ids \ {chat_id}],
                   ret |-> TRUE]
             ELSE [cm |-> [cm EXCEPT !.chats = _sort_chats(updated)], ret |-> TRUE]
    ELSE IF chat_id \in DOMAIN cm.inactive_chats
    THEN LET _chat == DictUpdate(cm.inactive_chats[chat_id], updates) IN
         IF _chat["order"] # 0
         THEN [cm |-> add_chat([cm EXCEPT !.inactive_chats = DictRemove(@, chat_id)], _chat),
               ret |-> TRUE]
         ELSE [cm |-> [cm EXCEPT !.inactive_chats = DictUpdate(@, chat_id :> _chat)],
               ret |-> FALSE]
    ELSE [cm |-> cm, ret |-> FALSE]

\* What the MP answers to get_chats and to the get_chat calls that follow it:
\* [error |-> TRUE, items |-> <<>>], or [error |-> FALSE, items |-> <<item, ...>>],
\* an item [id, error, chat] being a chat id of the page and what get_chat
\* returns for it: the chat, or an error.
RECURSIVE add_fetched_chats(_, _)
add_fetched_chats(cm, items) ==
    IF items = <<>> THEN [cm |-> cm, raised |-> FALSE, calls |-> <<>>]
    ELSE LET call == Call("get_chat", Head(items).id, <<>>, "chat") IN
         IF Head(items).error
         \* fetch_chat returns {} and add_chat fails on chat["id"]
         THEN [cm |-> cm, raised |-> TRUE, calls |-> <<[call EXCEPT !.reply = "error"]>>]
         ELSE LET rest == add_fetched_chats(add_chat(cm, Head(items).chat), Tail(items))
              IN  [rest EXCEPT !.calls = <<call>> \o @]

\* _load_next_chats without its first test: it asks the MP even when the list
\* is known to be complete.
LoadNextChatsUnguarded(cm, full, reply) ==
    IF reply.error
    THEN [cm |-> cm, full |-> full, raised |-> FALSE,
          calls |-> <<Call("get_chats", None, <<>>, "error")>>]
    ELSE IF reply.items = <<>>
    THEN [cm |-> cm, full |-> TRUE, raised |-> FALSE,
          calls |-> <<Call("get_chats", None, <<>>, "empty")>>]
    ELSE LET r == add_fetched_chats(cm, reply.items) IN
         [cm |-> r.cm, full |-> full, raised |-> r.raised,
          calls |-> <<Call("get_chats", None, <<>>, "chat_ids")>> \o r.calls]

\* ChatModel._load_next_chats
_load_next_chats(cm, full, reply) ==
    IF full THEN [cm |-> cm, full |-> full, raised |-> FALSE, calls |-> <<>>]
    ELSE IF reply.error
    THEN [cm |-> cm, full |-> full, raised |-> FALSE,
          calls |-> <<Call("get_chats", None, <<>>, "error")>>]
    ELSE IF reply.items = <<>>
    THEN [cm |-> cm, full |-> TRUE, raised |-> FALSE,
          calls |-> <<Call("get_chats", None, <<>>, "empty")>>]
    ELSE LET r == add_fetched_chats(cm, reply.items) IN
         [cm |-> r.cm, full |-> full, raised |-> r.raised,
          calls |-> <<Call("get_chats", None, <<>>, "chat_ids")>> \o r.calls]

\* ChatModel.fetch_chats: ret is the list returned (when nothing was raised).
fetch_chats(cm, full, offset, limit, reply) ==
    LET r == IF offset + limit > Len(cm.chats)
             THEN _load_next_chats(cm, full, reply)
             ELSE [cm |-> cm, full |-> full, raised |-> FALSE, calls |-> <<>>]
    IN  [cm |-> r.cm, full |-> r.full, raised |-> r.raised, calls |-> r.calls,
         ret |-> PySlice(r.cm.chats, offset, limit)]

MSGS_LEFT_SCROLL_THRESHOLD == 2

\* Model.get_chats
get_chats(cm, full, current_position, page_size, msgs_left_scroll_threshold, reply) ==
    LET chats_left == page_size - current_position
        offset == Max(msgs_left_scroll_threshold - chats_left, 0)
        limit == offset + page_size
    IN  fetch_chats(cm, full, offset, limit, reply)

\* ------------------------------------------------------------------ MsgModel

\* The two collections of a MsgModel that hold messages, as one value mm:
\* mm.msgs[chat_id] is a dict msg id -> msg, mm.msg_ids[chat_id] a list of ids.
MsgModelOf(ms, ids) == [msgs |-> ms, msg_ids |-> ids]

RECURSIVE InsertDesc(_, _)
InsertDesc(x, s) ==
    IF s = <<>> THEN <<x>>
    ELSE IF x >= Head(s) THEN <<x>> \o s
    ELSE <<Head(s)>> \o InsertDesc(x, Tail(s))

\* list.sort(reverse = True) on a list of integers
RECURSIVE SortDesc(_)
SortDesc(s) == IF s = <<>> THEN <<>> ELSE InsertDesc(Head(s), SortDesc(Tail(s)))

\* list.remove(x): the first occurrence goes, ValueError is swallowed.
RECURSIVE ListRemove(_, _)
ListRemove(s, x) ==
    IF s = <<>> THEN <<>>
    ELSE IF Head(s) = x THEN Tail(s)
    ELSE <<Head(s)>> \o ListRemove(Tail(s), x)

\* MsgModel.add_message
add_message(mm, chat_id, msg) ==
    LET msg_id == msg["id"]
        ids == <<msg_id>> \o mm.msg_ids[chat_id]
    IN  [msgs |-> [mm.msgs EXCEPT ![chat_id] = DictUpdate(@, msg_id :> msg)],
         msg_ids |-> [mm.msg_ids EXCEPT ![chat_id] =
                         IF Len(ids) >= 2 /\ msg_id < ids[2] THEN SortDesc(ids) ELSE ids]]

\* MsgModel.remove_messages
RECURSIVE remove_messages(_, _, _)
remove_messages(mm, chat_id, ids) ==
    IF ids = <<>> THEN mm
    ELSE remove_messages(
             [msgs |-> [mm.msgs EXCEPT ![chat_id] = DictRemove(@, Head(ids))],
              msg_ids |-> [mm.msg_ids EXCEPT ![chat_id] = ListRemove(@, Head(ids))]],
             chat_id, Tail(ids))

\* MsgModel.next_msg, jump_bottom, prev_msg: the new cursor and the value returned.
next_msg(cur, step) ==
    IF cur = 0 THEN [cur |-> cur, ret |-> FALSE] ELSE [cur |-> Max(0, cur - step), ret |-> TRUE]

jump_bottom(cur) ==
    IF cur = 0 THEN [cur |-> cur, ret |-> FALSE] ELSE [cur |-> 0, ret |-> TRUE]

prev_msg(cur, ids, step) ==
    IF cur + step < Len(ids) THEN [cur |-> cur + step, ret |-> TRUE]
    ELSE [cur |-> cur, ret |-> FALSE]

\* The retry loop of MsgModel._fetch_msgs_until_limit from iteration i on, with
\* `messages` received so far and every later reply drawn from pages: the set
\* of outcomes [messages, n, raised], n being the requests issued.  A failed
\* request (only when failing) raises on result.update["messages"].
RECURSIVE FetchMore(_, _, _, _, _)
FetchMore(pages, failing, need, messages, i) ==
    IF i = 3 \/ Len(messages) >= need
    THEN {[messages |-> messages, n |-> i + 1, raised |-> FALSE]}
    ELSE UNION {FetchMore(pages, failing, need, messages \o p, i + 1) : p \in pages}
         \cup (IF failing THEN {[messages |-> <<>>, n |-> i + 2, raised |-> TRUE]} ELSE {})

\* MsgModel._fetch_msgs_until_limit: the set of its outcomes.
_fetch_msgs_until_limit(pages, failing, offset, limit) ==
    {[messages |-> <<>>, n |-> 1, raised |-> FALSE] : p \in pages \cap {<<>>}}
    \cup UNION {FetchMore(pages, failing, limit + offset, p, 0) : p \in pages \ {<<>>}}
    \cup (IF failing THEN {[messages |-> <<>>, n |-> 1, raised |-> TRUE]} ELSE {})

RECURSIVE AddMessages(_, _, _)
AddMessages(mm, chat_id, messages) ==
    IF messages = <<>> THEN mm
    ELSE AddMessages(add_message(mm, chat_id, Head(messages)), chat_id, Tail(messages))

\* MsgModel.fetch_msgs with the outcome o of its history requests: the new
\* collections, the requests issued, and its arguments with the (i, msg) list
\* it returns; it raises KeyError when the index holds an id the mapping lacks.
fetch_msgs(mm, chat_id, offset, limit, o) ==
    LET asks == offset + limit > Len(mm.msg_ids[chat_id])
        m2 == IF asks /\ ~o.raised THEN AddMessages(mm, chat_id, o.messages) ELSE mm
        window == PySlice(m2.msg_ids[chat_id], offset, offset + limit)
        missing == \E i \in 1..Len(window) : window[i] \notin DOMAIN m2.msgs[chat_id]
    IN  [mm |-> m2,
         n |-> IF asks THEN o.n ELSE 0,
         raised |-> (asks /\ o.raised) \/ missing,
         ret |-> [offset |-> offset, limit |-> limit,
                  msgs |-> IF (asks /\ o.raised) \/ missing THEN <<>>
                           ELSE [i \in 1..Len(window) |->
                                    <<i - 1, m2.msgs[chat_id][window[i]]>>]]]

\* Model.fetch_msgs (threshold is its msgs_left_scroll_threshold): the set of its
\* results, one for each way the MP may answer.
Model_fetch_msgs(mm, chat_id, current_position, page_size, threshold, pages, failing) ==
    LET msgs_left == page_size - 1 - current_position
        offset == Max(threshold - msgs_left, 0)
        limit == offset + page_size
    IN  {fetch_msgs(mm, chat_id, offset, limit, o) :
            o \in _fetch_msgs_until_limit(pages, failing, offset, offset + limit)}

\* ------------------------------------------------------------------ Controller: the queue

\* A closure in the queue: the bound method, and for _update_status its text.
Closure(f, text) == [f |-> f, text |-> text]

\* A queue that hands out the closure put last.
PutFront(q, f) == <<Closure(f, "")>> \o q

\* queue.put
put(q, f) == Append(q, Closure(f, ""))

\* Controller.update_status, as present_info and present_error call it
update_status(q, level, msg) == Append(q, Closure("_update_status", level \o ": " \o msg))

\* Controller._render_chats
_render_chats(cm, full, cur, hh, reply) ==
    get_chats(cm, full, cur, hh - 1, MSGS_LEFT_SCROLL_THRESHOLD, reply)

\* No MsgModel.fetch_msgs in the step.
NotFetched == [offset |-> 0, limit |-> 0, msgs |-> <<>>]

\* Controller._render_msgs: the set of its results.
_render_msgs(cs, cur, mm, cursors, hh, pages, failing) ==
    LET chat_id == id_by_index(cs, cur) IN
    IF chat_id = None THEN {[mm |-> mm, n |-> 0, raised |-> FALSE, ret |-> NotFetched]}
    ELSE Model_fetch_msgs(mm, chat_id, cursors[chat_id], hh - 1,
                          MSGS_LEFT_SCROLL_THRESHOLD, pages, failing)

\* The n get_chat_history requests of one fetch.
HistoryCalls(chat_id, n) == [i \in 1..n |-> Call("get_chat_history", chat_id, <<>>, "messages")]

\* Controller._render (both parts), _render_chats or _render_msgs alone, on the
\* current state with the views hh high: the set of results.  _render_msgs does
\* not run when _render_chats raised.
Rendered(doChats, doMsgs, hh, replies, pages, failing) ==
    LET cm0 == ChatModelOf(chats, inactive_chats, chat_ids)
        mm0 == MsgModelOf(msgs, msg_ids)
        Chats(reply) ==
            IF doChats THEN _render_chats(cm0, have_full_chat_list, current_chat, hh, reply)
            ELSE [cm |-> cm0, full |-> have_full_chat_list, raised |-> FALSE, calls |-> <<>>]
        Msgs(rc) ==
            IF doMsgs /\ ~rc.raised
            THEN _render_msgs(rc.cm.chats, current_chat, mm0, current_msgs, hh, pages, failing)
            ELSE {[mm |-> mm0, n |-> 0, raised |-> FALSE, ret |-> NotFetched]}
    IN  UNION {{[cm |-> Chats(reply).cm, full |-> Chats(reply).full, mm |-> rm.mm,
                 raised |-> Chats(reply).raised \/ rm.raised,
                 calls |-> Chats(reply).calls
                           \o HistoryCalls(id_by_index(Chats(reply).cm.chats, current_chat), rm.n),
                 ret |-> rm.ret] : rm \in Msgs(Chats(reply))} : reply \in replies}

\* An exception that leaves the loop of Controller.draw.
DrawRaises(running) == FALSE

\* The except clause of Controller.draw: the exception is logged and the loop
\* tests is_running again.
draw_except(running) == running

\* A close that stops nothing.
CloseKeepsRunning == TRUE

\* Controller.close: is_running after it
close == FALSE

\* One iteration of Controller.draw: the closure at the head of the queue runs.
\* What it raises is caught by the loop; what it changed before stays changed.
Draw(replies, pages, failing) ==
    /\ is_running
    /\ queue # <<>>
    /\ queue' = Tail(queue)
    /\ UNCHANGED <<current_chat, current_msgs, inputVars, dispatched>>
    /\ UNCHANGED <<extVars, chat_size>>
    /\ LET fn == Head(queue) IN
       CASE fn.f = "close" ->
                /\ is_running' = close
                /\ caught' = ""
                /\ tg_calls' = <<>>
                /\ fetched' = NotFetched
                /\ UNCHANGED <<chats, inactive_chats, chat_ids, have_full_chat_list,
                               msgs, msg_ids, h, status>>
         [] fn.f = "_update_status" ->
                /\ status' = fn.text
                /\ caught' = ""
                /\ tg_calls' = <<>>
                /\ fetched' = NotFetched
                /\ UNCHANGED <<chats, inactive_chats, chat_ids, have_full_chat_list,
                               msgs, msg_ids, h, is_running>>
         [] OTHER ->
                \* _resize (the views take rows - 1 lines, then _render), _render,
                \* _render_chats, _render_msgs
                /\ h' = IF fn.f = "_resize" THEN Rows - 1 ELSE h
                /\ \E r \in Rendered(fn.f # "_render_msgs", fn.f # "_render_chats",
                                     h', replies, pages, failing) :
                       /\ chats' = r.cm.chats
                       /\ inactive_chats' = r.cm.inactive_chats
                       /\ chat_ids' = r.cm.chat_ids
                       /\ have_full_chat_list' = r.full
                       /\ msgs' = r.mm.msgs
                       /\ msg_ids' = r.mm.msg_ids
                       /\ tg_calls' = r.calls
                       /\ fetched' = r.ret
                       /\ caught' = IF r.raised THEN "draw" ELSE ""
                       /\ is_running' = IF r.raised THEN draw_except(is_running) ELSE is_running
                /\ UNCHANGED status

\* Controller.run entering handle(chat_handler, 0.5): resize() is queued and the
\* key loop starts.
Run ==
    /\ mode = "init"
    /\ mode' = "chat"
    /\ queue' = put(queue, "_resize")
    /\ tg_calls' = <<>>
    /\ fetched' = NotFetched
    /\ UNCHANGED extVars /\ caught' = ""
    /\ chat_size' = 5   \* handle(chat_handler, 0.5), in tenths
    /\ UNCHANGED dispatched
    /\ UNCHANGED <<chatVars, msgVars, is_running, h, status, keys, repeat_factor, nread, typing>>

\* Controller.resize_handler, on SIGWINCH
ResizeHandler ==
    /\ Len(queue) < MaxQueue
    /\ queue' = put(queue, "_resize")
    /\ tg_calls' = <<>>
    /\ fetched' = NotFetched
    /\ UNCHANGED <<extVars, chat_size>> /\ caught' = ""
    /\ UNCHANGED dispatched
    /\ UNCHANGED <<chatVars, msgVars, is_running, h, status, inputVars>>

\* Controller.refresh_current_chat: the new current_chat and queue.
refresh_current_chat(cs, cur, q, current_chat_id) ==
    LET found == {i \in 1..Len(cs) : cs[i]["id"] = current_chat_id} IN
    IF current_chat_id = None THEN [current_chat |-> cur, queue |-> q]
    ELSE [current_chat |-> IF found = {} THEN cur
                           ELSE (CHOOSE i \in found : \A j \in found : i <= j) - 1,
          queue |-> put(q, "_render")]

\* ------------------------------------------------------------------ update handlers: chats

\* update_new_chat
UpdateNewChat(chat) ==
    LET cm == add_chat(ChatModelOf(chats, inactive_chats, chat_ids), chat) IN
    /\ chats' = cm.chats
    /\ inactive_chats' = cm.inactive_chats
    /\ chat_ids' = cm.chat_ids
    /\ tg_calls' = <<>>
    /\ fetched' = NotFetched
    /\ UNCHANGED <<extVars, chat_size>> /\ caught' = ""
    /\ UNCHANGED dispatched
    /\ UNCHANGED <<have_full_chat_list, current_chat, msgVars, ctlVars, inputVars>>

\* What update_chat_order, update_chat_position, update_chat_is_pinned,
\* update_chat_draft_message, update_chat_title and update_chat_last_message
\* share: current_chat_id is read, update_chat applies the update's fields, and
\* refresh_current_chat runs when it returns True.  Of the fields only those a
\* modelled operation reads are kept in the chat (order, last_message).
ChatUpdated(chat_id, updates) ==
    LET current_chat_id == id_by_index(chats, current_chat)
        r == update_chat(ChatModelOf(chats, inactive_chats, chat_ids), chat_id, updates)
        f == IF r.ret THEN refresh_current_chat(r.cm.chats, current_chat, queue, current_chat_id)
             ELSE [current_chat |-> current_chat, queue |-> queue]
    IN  /\ Len(queue) < MaxQueue
        /\ chats' = r.cm.chats
        /\ inactive_chats' = r.cm.inactive_chats
        /\ chat_ids' = r.cm.chat_ids
        /\ current_chat' = f.current_chat
        /\ queue' = f.queue
        /\ tg_calls' = <<>>
        /\ fetched' = NotFetched
        /\ UNCHANGED <<extVars, chat_size>> /\ caught' = ""
        /\ UNCHANGED dispatched
        /\ UNCHANGED <<have_full_chat_list, msgVars, is_running, h, status, inputVars>>

\* update_chat_order
UpdateChatOrder(chat_id, order) == ChatUpdated(chat_id, [order |-> order])

\* update_chat_position, the update carrying no is_pinned
UpdateChatPosition(chat_id, order) ==
    ChatUpdated(chat_id, [order |-> order])

\* update_chat_is_pinned
UpdateChatIsPinned(chat_id, order) ==
    ChatUpdated(chat_id, [order |-> order])

\* update_chat_draft_message
UpdateChatDraftMessage(chat_id, order) ==
    ChatUpdated(chat_id, [order |-> order])

\* update_chat_title: no modelled operation reads the title
UpdateChatTitle(chat_id) ==
    ChatUpdated(chat_id, <<>>)

\* update_chat_last_message: null is the update without a last_message.
UpdateChatLastMessage(chat_id, null, last_message, positions) ==
    IF null
    THEN /\ tg_calls' = <<>>
         /\ fetched' = NotFetched
         /\ UNCHANGED <<extVars, chat_size>> /\ caught' = ""
         /\ UNCHANGED dispatched
         /\ UNCHANGED <<chatVars, msgVars, ctlVars, inputVars>>
    ELSE ChatUpdated(chat_id,
                     IF Len(positions) > 0
                     THEN [last_message |-> last_message, order |-> positions[1]["order"]]
                     ELSE [last_message |-> last_message])

\* ------------------------------------------------------------------ commands: the chat list

\* Model.next_chat, prev_chat, first_chat: the new current_chat and the value returned.
Model_next_chat(cs, cur, step) ==
    IF cur + step < Len(cs) THEN [cur |-> cur + step, ret |-> TRUE]
    ELSE [cur |-> cur, ret |-> FALSE]

Model_prev_chat(cur, step) ==
    IF cur = 0 THEN [cur |-> cur, ret |-> FALSE] ELSE [cur |-> Max(0, cur - step), ret |-> TRUE]

Model_first_chat(cur) ==
    IF cur # 0 THEN [cur |-> 0, ret |-> TRUE] ELSE [cur |-> cur, ret |-> FALSE]

\* A command of the chat list that moves current_chat and renders when it moved.
ChatMoved(name, m) ==
    /\ mode \in {"chat", "msg"}
    /\ typing = None
    /\ Len(queue) < MaxQueue
    /\ current_chat' = m.cur
    /\ queue' = IF m.ret THEN put(queue, "_render") ELSE queue
    /\ tg_calls' = <<>>
    /\ fetched' = NotFetched
    /\ UNCHANGED <<extVars, chat_size>> /\ caught' = ""
    /\ UNCHANGED dispatched
    /\ UNCHANGED <<chats, inactive_chats, chat_ids, have_full_chat_list, msgVars,
                   is_running, h, status, inputVars>>

\* Controller.next_chat: j in the chat list, ] in the messages
NextChat(step) ==
    /\ mode = "chat" \/ step = 1
    /\ ChatMoved("next_chat", Model_next_chat(chats, current_chat, step))

\* Controller.prev_chat: k in the chat list, [ in the messages
PrevChat(step) ==
    /\ mode = "chat" \/ step = 1
    /\ ChatMoved("prev_chat", Model_prev_chat(current_chat, step))

\* Controller.top_chat: g in the chat list
TopChat ==
    /\ mode = "chat"
    /\ ChatMoved("top_chat", Model_first_chat(current_chat))

\* ------------------------------------------------------------------ the chat list: specification

\* All the sequences over S of length at most n.
RECURSIVE SeqsUpTo(_, _)
SeqsUpTo(S, n) ==
    IF n = 0 THEN {<<>>}
    ELSE LET shorter == SeqsUpTo(S, n - 1)
         IN  shorter \cup {Append(q, x) : q \in shorter, x \in S}

\* The chats the MP knows: a chat comes with no position or with one position.
Positions == {<<>>} \cup {<<[order |-> o]>> : o \in 1..MaxOrder}
MPChats == {[id |-> i, positions |-> p, last_message |-> [id |-> 1]] :
               i \in ChatIds, p \in Positions}

\* The answers to get_chats and to the get_chat calls that follow it.
ChatItems ==
    {[id |-> c["id"], error |-> FALSE, chat |-> c] : c \in MPChats}
    \cup {[id |-> c["id"], error |-> TRUE, chat |-> c] : c \in {x \in MPChats : x["positions"] = <<>>}}
ChatReplies ==
    {[error |-> TRUE, items |-> <<>>]}
    \cup {[error |-> FALSE, items |-> q] : q \in SeqsUpTo(ChatItems, MaxReplyLen)}

\* Model.__init__ and MsgModel.__init__: nothing selected, copied, downloading
\* or known to be missing; no update is being handled.
\* No long reply is being written.
NoLongMsg == [stage |-> "", replied |-> <<>>, file |-> <<>>, sent |-> <<>>]

\* No string is being truncated.
NoTruncated == [stage |-> "", string |-> <<>>, width |-> 0, out |-> <<>>]

\* The threads that add chats to the store, and a thread that is not inside
\* add_chat.
StoreThreads == {"draw", "update"}
NoStoreOps == [t \in StoreThreads |-> [pc |-> "", chat |-> <<>>, sorted |-> <<>>]]

\* View.__init__ and the __init__ of the three panes: each pane refreshes with
\* win.refresh, the resize handler is View.resize.
ViewInit == [chats |-> "refresh", msgs |-> "refresh", status |-> "refresh", resize_handler |-> "resize"]

\* fetch_chats was not called by itself.
NoFetchedChats == [stage |-> "", offset |-> 0, limit |-> 0, ret |-> <<>>]

InitExt ==
    /\ selected = [c \in ChatIds |-> <<>>]
    /\ copied_msgs = <<0, <<>>>>
    /\ downloads = <<>>
    /\ not_found = {}
    /\ upd = <<>>
    /\ caught = ""
    /\ long_msg = NoLongMsg
    /\ truncated = NoTruncated
    /\ fetched_chats = NoFetchedChats
    /\ chat_upd = <<>>
    /\ store_ops = NoStoreOps
    /\ found_chat_idx = 0
    /\ found_chats = <<>>
    /\ suspending = FALSE
    /\ view = ViewInit

\* The state after construction: Model(), Controller(), the threads not started.
Init ==
    /\ InitExt
    /\ chat_size = 5
    /\ chats = <<>>
    /\ inactive_chats = <<>>
    /\ chat_ids = {}
    /\ have_full_chat_list = FALSE
    /\ current_chat = 0
    /\ msgs = [c \in ChatIds |-> <<>>]
    /\ msg_ids = [c \in ChatIds |-> <<>>]
    /\ current_msgs = [c \in ChatIds |-> 0]
    /\ queue = <<>>
    /\ is_running = TRUE
    /\ h = 0
    /\ status = ""
    /\ mode = "init"
    /\ keys = <<>>
    /\ repeat_factor = <<>>
    /\ nread = 0
    /\ typing = None
    /\ tg_calls = <<>>
    /\ fetched = NotFetched
    /\ dispatched = [fun |-> "", repeat_factor |-> 0]

DrawChats == Draw(ChatReplies, {<<>>}, FALSE)
NewChat == \E chat \in MPChats : UpdateNewChat(chat)
ChatOrder == \E chat_id \in ChatIds, order \in Orders : UpdateChatOrder(chat_id, order)
ChatPosition == \E chat_id \in ChatIds, order \in Orders : UpdateChatPosition(chat_id, order)
ChatIsPinned == \E chat_id \in ChatIds, order \in Orders : UpdateChatIsPinned(chat_id, order)
ChatDraftMessage ==
    \E chat_id \in ChatIds, order \in Orders : UpdateChatDraftMessage(chat_id, order)
ChatTitle == \E chat_id \in ChatIds : UpdateChatTitle(chat_id)
ChatLastMessage ==
    \E chat_id \in ChatIds, null \in BOOLEAN, p \in Positions :
        UpdateChatLastMessage(chat_id, null, [id |-> 1], p)
KeyNextChat == \E step \in 1..MaxRepeat : NextChat(step)
KeyPrevChat == \E step \in 1..MaxRepeat : PrevChat(step)

NextChats ==
    \/ Run
    \/ ResizeHandler
    \/ DrawChats
    \/ NewChat
    \/ ChatOrder
    \/ ChatPosition
    \/ ChatIsPinned
    \/ ChatDraftMessage
    \/ ChatTitle
    \/ ChatLastMessage
    \/ KeyNextChat
    \/ KeyPrevChat
    \/ TopChat

SpecChats == Init /\ [][NextChats]_vars

\* ------------------------------------------------------------------ the chat list: properties

ActiveIdList == [i \in 1..Len(chats) |-> chats[i]["id"]]
ActiveIds == {chats[i]["id"] : i \in 1..Len(chats)}

\* The active list is in descending (order, id) order.
ActiveSorted ==
    \A i \in 1..Len(chats) - 1 :
        ChatKeyGreater(chats[i], chats[i + 1]) \/ chats[i] = chats[i + 1]

\* A step of a handler that ends in ChatModel.update_chat.
UpdateChatStep ==
    ChatOrder \/ ChatPosition \/ ChatIsPinned \/ ChatDraftMessage \/ ChatTitle \/ ChatLastMessage

\* C3: after any update_chat, from any reachable state, the active list is
\* sorted by (order, id) descending, every active chat has order > 0, every
\* inactive chat has order 0, and no chat id is both active and inactive.
C3_UpdateChatKeepsStore ==
    [][UpdateChatStep =>
          /\ ActiveSorted'
          /\ \A i \in 1..Len(chats') : chats'[i]["order"] > 0
          /\ \A c \in DOMAIN inactive_chats' : inactive_chats'[c]["order"] = 0
          /\ ActiveIds' \cap DOMAIN inactive_chats' = {}]_vars

\* C4: whatever chats were added and updated, a chat id is held once: at most
\* once in the active list and never in the active list and in the inactive
\* mapping together, also when a chat first seen with order 0 is added again
\* with a non-zero order.
C4_ChatIdHeldOnce ==
    /\ \A i, j \in 1..Len(chats) : chats[i]["id"] = chats[j]["id"] => i = j
    /\ ActiveIds \cap DOMAIN inactive_chats = {}

\* C7: one fetch of the chat list asks get_chats at most once; an empty
\* chat_ids reply sets have_full_chat_list; and once it is set it stays set and
\* no later fetch calls the MP.
C7_AtMostOneGetChats ==
    /\ [](/\ Cardinality({i \in 1..Len(tg_calls) : tg_calls[i].method = "get_chats"}) <= 1
          /\ \A i \in 1..Len(tg_calls) :
                 tg_calls[i].method = "get_chats" /\ tg_calls[i].reply = "empty"
                     => have_full_chat_list)
    /\ [][have_full_chat_list =>
             /\ have_full_chat_list'
             /\ \A i \in 1..Len(tg_calls') :
                    tg_calls'[i].method \notin {"get_chats", "get_chat"}]_vars

\* C7's case: a fetch has just been told the list is complete.
C7_Witness ==
    /\ have_full_chat_list
    /\ \E i \in 1..Len(tg_calls) :
           tg_calls[i].method = "get_chats" /\ tg_calls[i].reply = "empty"

\* A step of a push-update handler that changes the active list.
ActiveListChanged ==
    /\ NewChat \/ ChatOrder \/ ChatPosition \/ ChatIsPinned \/ ChatDraftMessage
       \/ ChatLastMessage
    /\ ActiveIdList' # ActiveIdList

\* C9: whenever a push-update changes the membership or the order of the
\* active list, afterwards current_chat designates the chat it designated
\* before (if that chat is still active) and exactly one redraw was enqueued.
C9_RefreshCurrentChat ==
    [][ActiveListChanged =>
          LET current_chat_id == id_by_index(chats, current_chat) IN
          /\ current_chat_id # None /\ current_chat_id \in ActiveIds'
                 => id_by_index(chats', current_chat') = current_chat_id
          /\ queue' = put(queue, "_render")]_vars

\* ------------------------------------------------------------------ update handlers: messages

\* render_msgs when the update is about the chat on screen
RenderMsgsIfCurrent(chat_id) ==
    IF id_by_index(chats, current_chat) = chat_id THEN put(queue, "_render_msgs") ELSE queue

\* config.MAX_DOWNLOAD_SIZE = "10MB" through utils.parse_size
max_download_size == 10 * 1024 * 1024

\* A message carries a file under the key "file": [id, size, local].  The test
\* of update_new_message before it downloads the file.
Downloadable(msg) ==
    /\ "file" \in DOMAIN msg
    /\ msg["file"]["id"] # 0
    /\ msg["file"]["size"] # 0
    /\ msg["file"]["size"] <= max_download_size

\* Controller.download: the new downloads.
download(d, file_id, chat_id, msg_id) == DictUpdate(d, file_id :> <<chat_id, msg_id>>)

\* update_new_message (the desktop notification changes nothing here).
UpdateNewMessage(msg) ==
    LET mm == add_message(MsgModelOf(msgs, msg_ids), msg["chat_id"], msg) IN
    /\ Len(queue) < MaxQueue
    /\ Len(msg_ids[msg["chat_id"]]) <= MaxIndexLen
    /\ msgs' = mm.msgs
    /\ msg_ids' = mm.msg_ids
    /\ queue' = RenderMsgsIfCurrent(msg["chat_id"])
    /\ IF Downloadable(msg)
       THEN /\ downloads' = download(downloads, msg["file"]["id"], msg["chat_id"], msg["id"])
            /\ tg_calls' = <<Call("download_file", None, <<msg["file"]["id"]>>, "")>>
       ELSE /\ downloads' = downloads
            /\ tg_calls' = <<>>
    /\ fetched' = NotFetched
    /\ UNCHANGED <<selected, copied_msgs, not_found, upd, chat_size, long_msg, callVars>> /\ caught' = ""
    /\ UNCHANGED <<chatVars, current_msgs, is_running, h, status, inputVars, dispatched>>

\* update_message_send_succeeded
UpdateMessageSendSucceeded(message, old_message_id) ==
    LET chat_id == message["chat_id"]
        mm == remove_messages(add_message(MsgModelOf(msgs, msg_ids), chat_id, message),
                              chat_id, <<old_message_id>>)
    IN  /\ Len(queue) < MaxQueue
        /\ Len(msg_ids[chat_id]) <= MaxIndexLen
        /\ msgs' = mm.msgs
        /\ msg_ids' = mm.msg_ids
        /\ queue' = RenderMsgsIfCurrent(chat_id)
        /\ tg_calls' = <<>>
        /\ fetched' = NotFetched
        /\ UNCHANGED <<extVars, chat_size>> /\ caught' = ""
        /\ UNCHANGED <<chatVars, current_msgs, is_running, h, status, inputVars, dispatched>>

\* update_file: nothing is done for a file that is not in downloads or whose
\* message is not stored; is_downloaded raises, after the redraw was queued,
\* on a stored message without a file.
UpdateFile(file) ==
    LET file_id == file["id"]
        chat_id == downloads[file_id][1]
        msg_id == downloads[file_id][2]
    IN  /\ Len(queue) < MaxQueue
        /\ tg_calls' = <<>>
        /\ fetched' = NotFetched
        /\ UNCHANGED <<chatVars, msg_ids, current_msgs, is_running, h, status, inputVars, dispatched>>
        /\ UNCHANGED <<selected, copied_msgs, not_found, upd, chat_size, long_msg, callVars>>
        /\ caught' = IF /\ file_id \in DOMAIN downloads
                        /\ msg_id \in DOMAIN msgs[chat_id]
                        /\ "file" \notin DOMAIN msgs[chat_id][msg_id]
                     THEN "update" ELSE ""
        /\ IF file_id \notin DOMAIN downloads
           THEN UNCHANGED <<msgs, queue, downloads>>
           ELSE IF msg_id \notin DOMAIN msgs[chat_id]
           THEN UNCHANGED <<msgs, queue, downloads>>
           ELSE IF "file" \notin DOMAIN msgs[chat_id][msg_id]
           THEN /\ queue' = put(queue, "_render_msgs")
                /\ UNCHANGED <<msgs, downloads>>
           ELSE /\ msgs' = [msgs EXCEPT ![chat_id][msg_id]["file"]["local"] = file["local"]]
                /\ queue' = put(queue, "_render_msgs")
                /\ downloads' = IF file["local"]["is_downloading_completed"]
                                THEN DictRemove(downloads, file_id)
                                ELSE downloads

\* update_delete_messages
UpdateDeleteMessages(chat_id, is_permanent, message_ids) ==
    LET mm == IF is_permanent
              THEN remove_messages(MsgModelOf(msgs, msg_ids), chat_id, message_ids)
              ELSE MsgModelOf(msgs, msg_ids)
    IN  /\ Len(queue) < MaxQueue
        /\ msgs' = mm.msgs
        /\ msg_ids' = mm.msg_ids
        /\ queue' = IF is_permanent THEN put(queue, "_render_msgs") ELSE queue
        /\ tg_calls' = <<>>
        /\ fetched' = NotFetched
        /\ UNCHANGED <<extVars, chat_size>> /\ caught' = ""
        /\ UNCHANGED <<chatVars, current_msgs, is_running, h, status, inputVars, dispatched>>

\* ------------------------------------------------------------------ commands: the messages

\* Model.view_current_msg: it raises when there is no current message (no
\* current chat, the cursor outside the index, an id the mapping lacks).
view_current_msg(cs, cur, mm, cursors) ==
    LET chat_id == id_by_index(cs, cur)
        ids == IF chat_id = None THEN <<>> ELSE mm.msg_ids[chat_id]
        i == IF chat_id = None THEN 0 ELSE cursors[chat_id]
    IN  IF chat_id = None \/ i >= Len(ids) THEN [raised |-> TRUE, calls |-> <<>>]
        ELSE IF ids[i + 1] \notin DOMAIN mm.msgs[chat_id] THEN [raised |-> TRUE, calls |-> <<>>]
        ELSE [raised |-> FALSE, calls |-> <<Call("view_messages", chat_id, <<ids[i + 1]>>, "")>>]

\* Model.next_msg: the new cursors, the calls, the value returned, or raised.
Model_next_msg(cs, cur, mm, cursors, step) ==
    LET chat_id == id_by_index(cs, cur) IN
    IF chat_id = None THEN [cursors |-> cursors, calls |-> <<>>, ret |-> FALSE, raised |-> FALSE]
    ELSE LET m == next_msg(cursors[chat_id], step)
             moved == [cursors EXCEPT ![chat_id] = m.cur]
             v == view_current_msg(cs, cur, mm, moved)
         IN  [cursors |-> moved, calls |-> v.calls, ret |-> m.ret, raised |-> v.raised]

\* Model.prev_msg
Model_prev_msg(cs, cur, mm, cursors, step) ==
    LET chat_id == id_by_index(cs, cur) IN
    IF chat_id = None THEN [cursors |-> cursors, calls |-> <<>>, ret |-> FALSE, raised |-> FALSE]
    ELSE LET m == prev_msg(cursors[chat_id], mm.msg_ids[chat_id], step)
             moved == [cursors EXCEPT ![chat_id] = m.cur]
             v == IF m.ret THEN view_current_msg(cs, cur, mm, moved)
                  ELSE [raised |-> FALSE, calls |-> <<>>]
         IN  [cursors |-> moved, calls |-> v.calls, ret |-> m.ret, raised |-> v.raised]

\* Model.jump_bottom
Model_jump_bottom(cs, cur, mm, cursors) ==
    LET chat_id == id_by_index(cs, cur)
        m == IF chat_id = None THEN [cur |-> 0, ret |-> FALSE] ELSE jump_bottom(cursors[chat_id])
        moved == IF chat_id = None THEN cursors ELSE [cursors EXCEPT ![chat_id] = m.cur]
        v == view_current_msg(cs, cur, mm, moved)
    IN  [cursors |-> moved, calls |-> v.calls, ret |-> m.ret, raised |-> v.raised]

\* A command of the messages that moves the cursor and renders the messages
\* when the model says it moved (and nothing was raised on the way).
MsgMoved(m) ==
    /\ mode = "msg"
    /\ typing = None
    /\ Len(queue) < MaxQueue
    /\ current_msgs' = m.cursors
    /\ queue' = IF m.ret /\ ~m.raised THEN put(queue, "_render_msgs") ELSE queue
    /\ tg_calls' = m.calls
    /\ fetched' = NotFetched
    /\ UNCHANGED <<extVars, chat_size>> /\ caught' = IF m.raised THEN "key" ELSE ""
    /\ UNCHANGED <<chatVars, msgs, msg_ids, is_running, h, status, inputVars, dispatched>>

\* Controller.next_msg: j
NextMsg(step) ==
    MsgMoved(Model_next_msg(chats, current_chat, MsgModelOf(msgs, msg_ids), current_msgs, step))

\* Controller.prev_msg: k
PrevMsg(step) ==
    /\ \A c \in ChatIds : current_msgs[c] + step <= MaxCursor
    /\ MsgMoved(Model_prev_msg(chats, current_chat, MsgModelOf(msgs, msg_ids), current_msgs, step))

\* Controller.bottom_msg: G
BottomMsg ==
    MsgMoved(Model_jump_bottom(chats, current_chat, MsgModelOf(msgs, msg_ids), current_msgs))

\* ------------------------------------------------------------------ the messages: specification

\* The messages the MP sends, and the pages of history it answers with: any
\* run of at most MaxPageLen messages, newest first.
MPMsg(chat_id, id) == [id |-> id, chat_id |-> chat_id]
HistoryPages(chat_id) ==
    {[i \in 1..Len(q) |-> MPMsg(chat_id, q[i])] :
        q \in {x \in SeqsUpTo(MsgIds, MaxPageLen) : \A i \in 1..Len(x) - 1 : x[i] > x[i + 1]}}

\* A chat as add_chat stored it.
StoredChat(id, order) ==
    [id |-> id, positions |-> <<[order |-> order]>>, order |-> order, last_message |-> [id |-> 1]]

\* The messages of chat 1 are on screen: the chat list was loaded whole, l was
\* typed on its only chat and the views were drawn.
InitMsgs ==
    /\ InitExt
    /\ chat_size = 2
    /\ chats = <<StoredChat(1, 1)>>
    /\ inactive_chats = <<>>
    /\ chat_ids = {1}
    /\ have_full_chat_list = TRUE
    /\ current_chat = 0
    /\ msgs = [c \in ChatIds |-> <<>>]
    /\ msg_ids = [c \in ChatIds |-> <<>>]
    /\ current_msgs = [c \in ChatIds |-> 0]
    /\ queue = <<>>
    /\ is_running = TRUE
    /\ h = Rows - 1
    /\ status = ""
    /\ mode = "msg"
    /\ keys = <<>>
    /\ repeat_factor = <<>>
    /\ nread = 0
    /\ typing = None
    /\ tg_calls = <<>>
    /\ fetched = NotFetched
    /\ dispatched = [fun |-> "", repeat_factor |-> 0]

DrawMsgs == Draw({[error |-> TRUE, items |-> <<>>]}, HistoryPages(1), TRUE)
NewMessage == \E id \in MsgIds : UpdateNewMessage(MPMsg(1, id))
MessageSendSucceeded ==
    \E id \in MsgIds, old \in MsgIds : UpdateMessageSendSucceeded(MPMsg(1, id), old)
DeleteMessages ==
    \E is_permanent \in BOOLEAN, ids \in SeqsUpTo(MsgIds, MaxPageLen) :
        UpdateDeleteMessages(1, is_permanent, ids)
KeyNextMsg == \E step \in 1..MaxRepeat : NextMsg(step)
KeyPrevMsg == \E step \in 1..MaxRepeat : PrevMsg(step)

NextMsgs ==
    \/ DrawMsgs
    \/ NewMessage
    \/ MessageSendSucceeded
    \/ DeleteMessages
    \/ KeyNextMsg
    \/ KeyPrevMsg
    \/ BottomMsg

SpecMsgs == InitMsgs /\ [][NextMsgs]_vars

\* ------------------------------------------------------------------ the messages: properties

\* How many times x occurs in the list s.
Count(s, x) == Cardinality({i \in 1..Len(s) : s[i] = x})

StrictlyDecreasing(s) == \A i \in 1..Len(s) - 1 : s[i] > s[i + 1]

\* C1: after any sequence of add_message (NewMessage, MessageSendSucceeded,
\* the history fetch) and remove_messages, every chat's index is strictly
\* decreasing and holds exactly the ids of the chat's mapping.
C1_IndexSortedAndExact ==
    \A c \in ChatIds :
        /\ StrictlyDecreasing(msg_ids[c])
        /\ {msg_ids[c][i] : i \in 1..Len(msg_ids[c])} = DOMAIN msgs[c]

\* A NewMessage step whose message id the store already holds.
DuplicateAdded ==
    \E id \in MsgIds : id \in DOMAIN msgs[1] /\ UpdateNewMessage(MPMsg(1, id))

\* C2: adding a message whose id is already stored leaves the index and the
\* mapping as they were.
C2_AddIdempotent ==
    [][DuplicateAdded => msg_ids' = msg_ids /\ msgs' = msgs]_vars

\* C5: a chat's cursor starts at 0 and, while the chat's index is not empty, is
\* an index into it, also after DeleteMessages and MessageSendSucceeded removed
\* messages.
C5_CursorInIndex ==
    \A c \in ChatIds :
        /\ current_msgs[c] >= 0
        /\ msg_ids[c] # <<>> => current_msgs[c] < Len(msg_ids[c])

\* An iteration of the draw loop: the only step that takes the head of the queue.
DrawStep == queue # <<>> /\ queue' = Tail(queue)

\* C6: whatever the offset and the limit and however the MP pages its history
\* replies, a fetch returns at most limit messages, in strictly decreasing id
\* order, and stores no id a second time.
C6_FetchWindow ==
    [][DrawStep =>
          /\ Len(fetched'.msgs) <= fetched'.limit
          /\ StrictlyDecreasing([i \in 1..Len(fetched'.msgs) |-> fetched'.msgs[i][2]["id"]])
          /\ \A c \in ChatIds, id \in MsgIds :
                 Count(msg_ids'[c], id) <= Max(1, Count(msg_ids[c], id))]_vars

\* ------------------------------------------------------------------ the key reader and the dispatcher

MAX_KEYBINDING_LENGTH == 5
MULTICHAR_KEYBINDINGS ==
    {<<"d", "d">>, <<"s", "d">>, <<"s", "p">>, <<"s", "a">>, <<"s", "v">>, <<"s", "n">>, <<"n", "s">>, <<"n", "g">>, <<"b", "p">>}

\* The bindings the @bind decorators declare: keys (a string, character by
\* character) -> the command.
chat_handler ==
    (<<"?">> :> "show_chat_help") @@ (<<"b", "p">> :> "breakpoint") @@ (<<"q">> :> "quit")
    @@ (<<"n", "s">> :> "new_secret") @@ (<<"n", "g">> :> "new_group")
    @@ (<<"d", "d">> :> "delete_chat") @@ (<<"n">> :> "next_found_chat")
    @@ (<<"N">> :> "prev_found_chat") @@ (<<"/">> :> "search_contacts")
    @@ (<<"c">> :> "view_contacts") @@ (<<"l">> :> "handle_msgs")
    @@ (<<"^", "J">> :> "handle_msgs") @@ (<<"^", "E">> :> "handle_msgs")
    @@ (<<"g">> :> "top_chat") @@ (<<"j">> :> "next_chat") @@ (<<"^", "B">> :> "next_chat")
    @@ (<<"^", "N">> :> "next_chat") @@ (<<"k">> :> "prev_chat")
    @@ (<<"^", "C">> :> "prev_chat") @@ (<<"^", "P">> :> "prev_chat")
    @@ (<<"J">> :> "jump_10_chats_down") @@ (<<"K">> :> "jump_10_chats_up")
    @@ (<<"u">> :> "toggle_unread") @@ (<<"r">> :> "read_msgs") @@ (<<"m">> :> "toggle_mute")
    @@ (<<"p">> :> "toggle_pin")

msg_handler ==
    (<<"c">> :> "show_chat_info") @@ (<<"u">> :> "show_user_info")
    @@ (<<"O">> :> "save_file_in_folder") @@ (<<"o">> :> "open_url")
    @@ (<<"?">> :> "show_msg_help") @@ (<<"b", "p">> :> "breakpoint") @@ (<<"q">> :> "quit")
    @@ (<<"h">> :> "back") @@ (<<"^", "D">> :> "back") @@ (<<"m">> :> "jump_to_reply_msg")
    @@ (<<"p">> :> "forward_msgs") @@ (<<"y">> :> "yank_msgs")
    @@ (<<" ">> :> "toggle_select_msg_down") @@ (<<"^", "@">> :> "toggle_select_msg_up")
    @@ (<<"^", "G">> :> "discard_selected_msgs") @@ (<<"^", "[">> :> "discard_selected_msgs")
    @@ (<<"G">> :> "bottom_msg") @@ (<<"j">> :> "next_msg") @@ (<<"^", "B">> :> "next_msg")
    @@ (<<"^", "N">> :> "next_msg") @@ (<<"J">> :> "jump_10_msgs_down")
    @@ (<<"k">> :> "prev_msg") @@ (<<"^", "C">> :> "prev_msg") @@ (<<"^", "P">> :> "prev_msg")
    @@ (<<"K">> :> "jump_10_msgs_up") @@ (<<"r">> :> "reply_message")
    @@ (<<"R">> :> "reply_with_long_message") @@ (<<"a">> :> "write_short_msg")
    @@ (<<"i">> :> "write_short_msg") @@ (<<"A">> :> "write_long_msg")
    @@ (<<"I">> :> "write_long_msg") @@ (<<"d", "d">> :> "delete_msgs")
    @@ (<<"S">> :> "choose_and_send_file") @@ (<<"s", "d">> :> "send_document")
    @@ (<<"s", "p">> :> "send_picture") @@ (<<"s", "a">> :> "send_audio")
    @@ (<<"s", "n">> :> "send_animation") @@ (<<"s", "v">> :> "send_video")
    @@ (<<"v">> :> "record_voice") @@ (<<"D">> :> "download_current_file")
    @@ (<<"!">> :> "open_msg_with_cmd") @@ (<<"l">> :> "open_current_msg")
    @@ (<<"^", "J">> :> "open_current_msg") @@ (<<"e">> :> "edit_msg")
    @@ (<<"]">> :> "next_chat") @@ (<<"[">> :> "prev_chat")

\* What get_keys returns for an empty key buffer.
UNKNOWN == <<"U", "N", "K", "N", "O", "W", "N">>

Digits == {"0", "1", "2", "3", "4", "5", "6", "7", "8", "9"}
DigitValue ==
    ("0" :> 0) @@ ("1" :> 1) @@ ("2" :> 2) @@ ("3" :> 3) @@ ("4" :> 4)
    @@ ("5" :> 5) @@ ("6" :> 6) @@ ("7" :> 7) @@ ("8" :> 8) @@ ("9" :> 9)

\* int(s) for a string of digits
RECURSIVE int(_)
int(s) == IF s = <<>> THEN 0 ELSE 10 * int(SubSeq(s, 1, Len(s) - 1)) + DigitValue[s[Len(s)]]

\* utils.num: int(value), or the default when value is no number (here: empty)
num(value, default) == IF value = <<>> THEN default ELSE int(value)

\* str.startswith
StartsWith(p, prefix) == Len(prefix) <= Len(p) /\ SubSeq(p, 1, Len(prefix)) = prefix

\* The test that ends the loop of get_keys after a key that is no digit.
MatchFound(ks) == \A p \in MULTICHAR_KEYBINDINGS : p = ks \/ ~StartsWith(p, ks)

\* The handler map the running handle() loop reads.
Handlers == IF mode = "msg" THEN msg_handler ELSE chat_handler

\* A QUIT that resets the panes like a BACK.
ChatSizeResetOnQuit(fun, size) ==
    CASE fun = "handle_msgs" -> 2
      [] fun \in {"back", "quit"} -> 5
      [] OTHER -> size

\* Controller.chat_size, in tenths, after a command: handle_msgs enters
\* handle(msg_handler, 0.2); when that returns BACK, handle_msgs sets 0.5; when
\* it returns QUIT, handle_msgs returns at once.
chat_size_after(fun, size) ==
    CASE fun = "handle_msgs" -> 2
      [] fun = "back" -> 5
      [] OTHER -> size

\* The body of the loop of Controller.handle once get_keys returned
\* (repeat_factor, ks): the command bound to ks in the running loop's map is
\* called, or nothing when ks is not bound.  The commands are run as they run
\* while no chat is loaded: handle_msgs enters handle(msg_handler), which queues
\* a resize; back leaves it and handle_msgs queues a resize; quit ends both
\* loops and run queues close; delete_msgs finds no chat and presents an error;
\* the other commands of the keys typed here change nothing (they find no chat,
\* or raise into the loop's except).
Dispatched(rf, ks) ==
    LET fun == IF ks \in DOMAIN Handlers THEN Handlers[ks] ELSE "" IN
    /\ chats = <<>>
    /\ Len(queue) < MaxQueue
    /\ keys' = <<>>
    /\ repeat_factor' = <<>>
    /\ nread' = 0
    /\ dispatched' = [fun |-> fun, repeat_factor |-> rf]
    /\ mode' = CASE fun = "handle_msgs" -> "msg"
                 [] fun = "back" -> "chat"
                 [] fun = "quit" -> "quit"
                 [] OTHER -> mode
    /\ queue' = CASE fun \in {"handle_msgs", "back"} -> put(queue, "_resize")
                  [] fun = "quit" -> put(queue, "close")
                  [] fun = "delete_msgs" -> update_status(queue, "Error", "Can't delete msg(s)")
                  [] OTHER -> queue
    /\ tg_calls' = <<>>
    /\ fetched' = NotFetched
    /\ UNCHANGED extVars /\ caught' = ""
    /\ chat_size' = chat_size_after(fun, chat_size)
    /\ UNCHANGED <<chatVars, msgVars, is_running, h, status, typing>>

\* One iteration of the loop of View.get_keys, getch returning key; when the
\* loop ends with it, get_keys returns and the loop of handle dispatches.
GetCh(key) ==
    LET isdigit == key \in Digits
        rf == IF isdigit THEN Append(repeat_factor, key) ELSE repeat_factor
        ks == IF isdigit THEN keys ELSE Append(keys, key)
        done == (~isdigit /\ MatchFound(ks)) \/ nread + 1 = MAX_KEYBINDING_LENGTH
    IN  /\ mode \in {"chat", "msg"}
        /\ typing = None
        /\ IF done THEN Dispatched(num(rf, 1), IF ks = <<>> THEN UNKNOWN ELSE ks)
           ELSE /\ keys' = ks
                /\ repeat_factor' = rf
                /\ nread' = nread + 1
                /\ tg_calls' = <<>>
                /\ fetched' = NotFetched
                /\ UNCHANGED <<extVars, chat_size>> /\ caught' = ""
                /\ UNCHANGED <<chatVars, msgVars, ctlVars, mode, typing, dispatched>>

\* getch returns what curses.unctrl refuses: the loop of get_keys ends at once.
GetChInvalid ==
    /\ mode \in {"chat", "msg"}
    /\ typing = None
    /\ Dispatched(num(repeat_factor, 1), IF keys = <<>> THEN UNKNOWN ELSE keys)

\* ------------------------------------------------------------------ the keys: specification

\* The keys typed.
TypedKeys == {"d", "n", "j", "l", "h", "q", "x", "2"}

\* While the keys are typed the MP has no chat to give.
DrawKeys == Draw({[error |-> TRUE, items |-> <<>>], [error |-> FALSE, items |-> <<>>]}, {<<>>}, FALSE)
KeyTyped == \E key \in TypedKeys : GetCh(key)

NextKeys ==
    \/ Run
    \/ DrawKeys
    \/ KeyTyped
    \/ GetChInvalid

SpecKeys == Init /\ [][NextKeys]_vars

\* A key that completes, without digits, a binding of the running loop.
BindingTyped(key) ==
    /\ repeat_factor = <<>>
    /\ Append(keys, key) \in DOMAIN Handlers
    /\ GetCh(key)

\* C8: every declared binding typed without digits is dispatched, once, as
\* soon as the buffer equals it, with repeat factor 1 (dd in the messages
\* calls delete_msgs once); also a one-key binding that is a proper prefix of
\* a longer one (n before ns and ng in the chat list).
C8_BindingDispatchedAtOnce ==
    [][\A key \in TypedKeys :
          BindingTyped(key) =>
              /\ dispatched' = [fun |-> Handlers[Append(keys, key)], repeat_factor |-> 1]
              /\ keys' = <<>>]_vars

\* ------------------------------------------------------------------ commands: writing a message

HasKey(d, k) == k \in DOMAIN d

\* Controller.write_short_msg (a, i) up to its call of get_input.  can_send_msg
\* raises into the loop's except when there is no current chat.
WriteShortMsg ==
    LET chat_id == id_by_index(chats, current_chat) IN
    /\ mode = "msg"
    /\ typing = None
    /\ Len(queue) < MaxQueue
    /\ fetched' = NotFetched
    /\ UNCHANGED <<extVars, chat_size>> /\ caught' = IF current_chat >= Len(chats) THEN "key" ELSE ""
    /\ UNCHANGED <<chatVars, msgVars, is_running, h, status, mode, keys, repeat_factor,
                   nread, dispatched>>
    /\ IF current_chat >= Len(chats)
       THEN /\ tg_calls' = <<>>
            /\ UNCHANGED <<queue, typing>>
       ELSE IF ~chats[current_chat + 1]["permissions"]["can_send_messages"] \/ chat_id = None
       THEN /\ queue' = update_status(queue, "Info", "Can't send msg in this chat")
            /\ tg_calls' = <<>>
            /\ UNCHANGED typing
       ELSE /\ tg_calls' = <<Call("send_chat_action", chat_id, <<"chatActionTyping">>, "")>>
            /\ typing' = chat_id
            /\ UNCHANGED queue

\* Model.send_message: the calls made, the value returned, or raised (by
\* view_all_msgs, on a chat without last_message).
Model_send_message(cs, cur, text) ==
    LET chat_id == id_by_index(cs, cur) IN
    IF chat_id = None THEN [calls |-> <<>>, ret |-> FALSE, raised |-> FALSE]
    ELSE IF ~HasKey(cs[cur + 1], "last_message")
    THEN [calls |-> <<>>, ret |-> FALSE, raised |-> TRUE]
    ELSE [calls |-> <<Call("view_messages", chat_id, <<cs[cur + 1]["last_message"]["id"]>>, ""),
                      Call("send_message", chat_id, <<text>>, "")>>,
          ret |-> TRUE, raised |-> FALSE]

\* Controller.write_short_msg from the return of get_input on: cancelled is
\* get_input returning None (^G, <esc>), else it returns buff.
InputDone(cancelled, buff) ==
    /\ typing # None
    /\ Len(queue) < MaxQueue
    /\ typing' = None
    /\ fetched' = NotFetched
    /\ UNCHANGED <<extVars, chat_size>>
    /\ caught' = IF ~cancelled /\ buff # "" /\ Model_send_message(chats, current_chat, buff).raised
               THEN "key" ELSE ""
    /\ UNCHANGED <<chatVars, msgVars, is_running, h, status, mode, keys, repeat_factor,
                   nread, dispatched>>
    /\ IF ~cancelled /\ buff # ""
       THEN LET r == Model_send_message(chats, current_chat, buff) IN
            /\ tg_calls' = r.calls
            /\ queue' = IF r.raised THEN queue
                        ELSE update_status(queue, "Info", "Message sent")
       ELSE /\ tg_calls' = <<Call("send_chat_action", typing, <<"chatActionCancel">>, "")>>
            /\ queue' = update_status(queue, "Info", "Message wasn't sent")

\* ------------------------------------------------------------------ writing a message: specification

Texts == {"", "hi"}

\* The chats the MP knows here: one may send in them or not, and a chat that
\* has no message yet has no last_message.
SendChats ==
    {[id |-> i, positions |-> <<[order |-> o]>>,
      permissions |-> [can_send_messages |-> b]] : i \in ChatIds, o \in 1..MaxOrder, b \in BOOLEAN}
    \cup {[id |-> i, positions |-> <<[order |-> o]>>,
           permissions |-> [can_send_messages |-> b],
           last_message |-> [id |-> m]] :
              i \in ChatIds, o \in 1..MaxOrder, b \in BOOLEAN, m \in MsgIds}

\* The messages are on screen (l was typed) and the MP has not sent a chat yet.
InitSend ==
    /\ InitExt
    /\ chat_size = 2
    /\ chats = <<>>
    /\ inactive_chats = <<>>
    /\ chat_ids = {}
    /\ have_full_chat_list = TRUE
    /\ current_chat = 0
    /\ msgs = [c \in ChatIds |-> <<>>]
    /\ msg_ids = [c \in ChatIds |-> <<>>]
    /\ current_msgs = [c \in ChatIds |-> 0]
    /\ queue = <<>>
    /\ is_running = TRUE
    /\ h = Rows - 1
    /\ status = ""
    /\ mode = "msg"
    /\ keys = <<>>
    /\ repeat_factor = <<>>
    /\ nread = 0
    /\ typing = None
    /\ tg_calls = <<>>
    /\ fetched = NotFetched
    /\ dispatched = [fun |-> "", repeat_factor |-> 0]

DrawSend == Draw({[error |-> TRUE, items |-> <<>>]}, {<<>>}, FALSE)
NewSendChat == \E chat \in SendChats : UpdateNewChat(chat)
SendChatLastMessage ==
    \E chat_id \in ChatIds, m \in MsgIds : UpdateChatLastMessage(chat_id, FALSE, [id |-> m], <<>>)
InputReturned == \E cancelled \in BOOLEAN, buff \in Texts : InputDone(cancelled, buff)

NextSend ==
    \/ DrawSend
    \/ NewSendChat
    \/ SendChatLastMessage
    \/ WriteShortMsg
    \/ InputReturned

SpecSend == InitSend /\ [][NextSend]_vars

\* C10: when write_short_msg commits a non-empty text in a chat that permits
\* sending, exactly one view_messages(chat_id, [last_message.id]) is issued
\* and, after it, exactly one send_message(chat_id, text), and the status
\* "Info: Message sent" is handed to the draw loop.
C10_ViewThenSend ==
    [][\A text \in Texts \ {""} :
          InputDone(FALSE, text) =>
              /\ Len(tg_calls') = 2
              /\ tg_calls'[1].method = "view_messages"
              /\ tg_calls'[1].chat_id = typing
              /\ \E i \in 1..Len(chats) :
                     /\ chats[i]["id"] = typing
                     /\ HasKey(chats[i], "last_message")
                     /\ tg_calls'[1].arg = <<chats[i]["last_message"]["id"]>>
              /\ tg_calls'[2].method = "send_message"
              /\ tg_calls'[2].chat_id = typing
              /\ tg_calls'[2].arg = <<text>>
              /\ queue' = update_status(queue, "Info", "Message sent")]_vars

\* ------------------------------------------------------------------ commands: selected messages

\* dict.get(k): None when the key is missing
Get(d, k) == IF k \in DOMAIN d THEN d[k] ELSE None

\* Model.current_msg: {} without a current chat; it raises when the cursor is
\* outside the index or the index holds an id the mapping lacks.
current_msg(cs, cur, mm, cursors) ==
    LET chat_id == id_by_index(cs, cur) IN
    IF chat_id = None THEN [raised |-> FALSE, msg |-> <<>>]
    ELSE IF cursors[chat_id] >= Len(mm.msg_ids[chat_id]) THEN [raised |-> TRUE, msg |-> <<>>]
    ELSE LET msg_id == mm.msg_ids[chat_id][cursors[chat_id] + 1] IN
         IF msg_id \notin DOMAIN mm.msgs[chat_id] THEN [raised |-> TRUE, msg |-> <<>>]
         ELSE [raised |-> FALSE, msg |-> mm.msgs[chat_id][msg_id]]

\* MsgModel.get_message, reply being what the MP answers if it is asked:
\* [error |-> TRUE] or [error |-> FALSE, msg |-> the message].
get_message(mm, nf, chat_id, msg_id, reply) ==
    IF msg_id \in nf
    THEN [found |-> FALSE, msg |-> <<>>, not_found |-> nf, calls |-> <<>>]
    ELSE IF msg_id \in DOMAIN mm.msgs[chat_id]
    THEN [found |-> TRUE, msg |-> mm.msgs[chat_id][msg_id], not_found |-> nf, calls |-> <<>>]
    ELSE IF reply.error
    THEN [found |-> FALSE, msg |-> <<>>, not_found |-> nf \cup {msg_id},
          calls |-> <<Call("get_message", chat_id, <<msg_id>>, "error")>>]
    ELSE [found |-> TRUE, msg |-> reply.msg, not_found |-> nf,
          calls |-> <<Call("get_message", chat_id, <<msg_id>>, "message")>>]

\* A can_be_deleted that asks for_all_users whoever the sender is.
CanBeDeletedForAll(chat_id, msg) == msg["can_be_deleted_for_all_users"]

\* Model.can_be_deleted
can_be_deleted(chat_id, msg) ==
    LET c_id == IF Get(msg["sender"], "chat_id") # None THEN Get(msg["sender"], "chat_id")
                ELSE Get(msg["sender"], "user_id")
    IN  IF chat_id = c_id THEN msg["can_be_deleted_only_for_self"]
        ELSE msg["can_be_deleted_for_all_users"]

\* The loop of Model.delete_msgs over the selected ids: ok is FALSE when it
\* returned False on a message that is missing or may not be deleted.
RECURSIVE AllDeletable(_, _, _, _, _)
AllDeletable(mm, nf, chat_id, ids, replies) ==
    IF ids = <<>> THEN [ok |-> TRUE, not_found |-> nf, calls |-> <<>>]
    ELSE LET g == get_message(mm, nf, chat_id, Head(ids), replies[Head(ids)]) IN
         IF ~g.found THEN [ok |-> FALSE, not_found |-> g.not_found, calls |-> g.calls]
         ELSE IF ~can_be_deleted(chat_id, g.msg)
         THEN [ok |-> FALSE, not_found |-> g.not_found, calls |-> g.calls]
         ELSE LET rest == AllDeletable(mm, g.not_found, chat_id, Tail(ids), replies)
              IN  [rest EXCEPT !.calls = g.calls \o @]

\* Model.delete_msgs: the value returned (or raised), the calls made and the
\* new not_found.  delete_messages is called with (chat_id, message_ids, revoke).
Model_delete_msgs(cs, cur, mm, cursors, sel, nf, replies) ==
    LET chat_id == id_by_index(cs, cur) IN
    IF chat_id = None
    THEN [ret |-> FALSE, raised |-> FALSE, calls |-> <<>>, not_found |-> nf]
    ELSE IF sel[chat_id] # <<>>
    THEN LET a == AllDeletable(mm, nf, chat_id, sel[chat_id], replies) IN
         [ret |-> a.ok, raised |-> FALSE, not_found |-> a.not_found,
          calls |-> IF a.ok
                    THEN a.calls \o <<Call("delete_messages", chat_id, <<sel[chat_id], TRUE>>, "")>>
                    ELSE a.calls]
    ELSE LET m == current_msg(cs, cur, mm, cursors) IN
         IF m.raised THEN [ret |-> FALSE, raised |-> TRUE, calls |-> <<>>, not_found |-> nf]
         ELSE IF ~can_be_deleted(chat_id, m.msg)
         THEN [ret |-> FALSE, raised |-> FALSE, calls |-> <<>>, not_found |-> nf]
         ELSE [ret |-> TRUE, raised |-> FALSE, not_found |-> nf,
               calls |-> <<Call("delete_messages", chat_id, <<<<m.msg["id"]>>, TRUE>>, "")>>]

\* Controller.discard_selected_msgs: the new selection and queue.
discard_selected_msgs(cs, cur, sel, q) ==
    LET chat_id == id_by_index(cs, cur) IN
    IF chat_id = None THEN [selected |-> sel, queue |-> q]
    ELSE [selected |-> [sel EXCEPT ![chat_id] = <<>>],
          queue |-> update_status(put(q, "_render_msgs"), "Info", "Discarded selected messages")]

\* What the commands on selected messages leave alone.
SelectionFrame ==
    /\ mode = "msg"
    /\ typing = None
    /\ queue = <<>>
    /\ fetched' = NotFetched
    /\ UNCHANGED <<chatVars, msgs, msg_ids, is_running, h, status, inputVars, dispatched>>
    /\ UNCHANGED <<downloads, upd, chat_size, long_msg, callVars>>

\* Controller.delete_msgs: dd
DeleteMsgs(replies) ==
    LET r == Model_delete_msgs(chats, current_chat, MsgModelOf(msgs, msg_ids), current_msgs,
                               selected, not_found, replies)
        d == discard_selected_msgs(chats, current_chat, selected, queue)
    IN  /\ SelectionFrame
        /\ caught' = IF r.raised THEN "key" ELSE ""
        /\ tg_calls' = r.calls
        /\ not_found' = r.not_found
        /\ UNCHANGED <<current_msgs, copied_msgs>>
        /\ IF r.raised THEN UNCHANGED <<selected, queue>>
           ELSE /\ selected' = d.selected
                /\ queue' = IF r.ret THEN update_status(d.queue, "Info", "Message deleted")
                            ELSE update_status(d.queue, "Error", "Can't delete msg(s)")

\* Controller.discard_selected_msgs: ^G, <esc>
DiscardSelectedMsgs ==
    LET d == discard_selected_msgs(chats, current_chat, selected, queue) IN
    /\ SelectionFrame
    /\ caught' = ""
    /\ tg_calls' = <<>>
    /\ selected' = d.selected
    /\ queue' = d.queue
    /\ UNCHANGED <<current_msgs, copied_msgs, not_found>>

\* Controller._toggle_select_msg: the new selection, or raised (by current_msg).
toggle_select_msg(cs, cur, mm, cursors, sel) ==
    LET chat_id == id_by_index(cs, cur)
        m == current_msg(cs, cur, mm, cursors)
    IN  IF chat_id = None THEN [raised |-> FALSE, selected |-> sel]
        ELSE IF m.raised THEN [raised |-> TRUE, selected |-> sel]
        ELSE IF \E i \in 1..Len(sel[chat_id]) : sel[chat_id][i] = m.msg["id"]
        THEN [raised |-> FALSE,
              selected |-> [sel EXCEPT ![chat_id] = ListRemove(@, m.msg["id"])]]
        ELSE [raised |-> FALSE,
              selected |-> [sel EXCEPT ![chat_id] = Append(@, m.msg["id"])]]

\* Controller.toggle_select_msg_down (<space>) and toggle_select_msg_up
\* (ctrl+<space>): the message under the cursor is toggled, the cursor moves
\* and the messages are rendered.
ToggleSelectMsg(up) ==
    LET mm == MsgModelOf(msgs, msg_ids)
        t == toggle_select_msg(chats, current_chat, mm, current_msgs, selected)
        m == IF up THEN Model_prev_msg(chats, current_chat, mm, current_msgs, 1)
             ELSE Model_next_msg(chats, current_chat, mm, current_msgs, 1)
    IN  /\ SelectionFrame
        /\ caught' = IF t.raised \/ m.raised THEN "key" ELSE ""
        /\ UNCHANGED <<copied_msgs, not_found>>
        /\ IF t.raised
           THEN /\ tg_calls' = <<>>
                /\ UNCHANGED <<selected, current_msgs, queue>>
           ELSE /\ selected' = t.selected
                /\ current_msgs' = m.cursors
                /\ tg_calls' = m.calls
                /\ queue' = IF m.raised THEN queue ELSE put(queue, "_render_msgs")

\* Model.forward_msgs without its loop: can_be_forwarded is not looked at.
AllForwardableUnchecked(mm, nf, from_chat_id, ids, replies) ==
    [ok |-> TRUE, not_found |-> nf, calls |-> <<>>]

\* The loop of Model.forward_msgs over the copied ids.
RECURSIVE AllForwardable(_, _, _, _, _)
AllForwardable(mm, nf, from_chat_id, ids, replies) ==
    IF ids = <<>> THEN [ok |-> TRUE, not_found |-> nf, calls |-> <<>>]
    ELSE LET g == get_message(mm, nf, from_chat_id, Head(ids), replies[Head(ids)]) IN
         IF ~g.found THEN [ok |-> FALSE, not_found |-> g.not_found, calls |-> g.calls]
         ELSE IF ~g.msg["can_be_forwarded"]
         THEN [ok |-> FALSE, not_found |-> g.not_found, calls |-> g.calls]
         ELSE LET rest == AllForwardable(mm, g.not_found, from_chat_id, Tail(ids), replies)
              IN  [rest EXCEPT !.calls = g.calls \o @]

\* Model.forward_msgs: forward_messages is called with (chat_id, from_chat_id, msg_ids).
Model_forward_msgs(cs, cur, mm, copied, nf, replies) ==
    LET chat_id == id_by_index(cs, cur)
        from_chat_id == copied[1]
        ids == copied[2]
    IN  IF chat_id = None \/ ids = <<>>
        THEN [ret |-> FALSE, calls |-> <<>>, not_found |-> nf, copied_msgs |-> copied]
        ELSE LET a == AllForwardable(mm, nf, from_chat_id, ids, replies) IN
             IF ~a.ok
             THEN [ret |-> FALSE, calls |-> a.calls, not_found |-> a.not_found,
                   copied_msgs |-> copied]
             ELSE [ret |-> TRUE, not_found |-> a.not_found, copied_msgs |-> <<0, <<>>>>,
                   calls |-> a.calls \o <<Call("forward_messages", chat_id, <<from_chat_id, ids>>, "")>>]

\* Controller.forward_msgs: p
ForwardMsgs(replies) ==
    LET r == Model_forward_msgs(chats, current_chat, MsgModelOf(msgs, msg_ids), copied_msgs,
                                not_found, replies)
    IN  /\ SelectionFrame
        /\ caught' = ""
        /\ tg_calls' = r.calls
        /\ not_found' = r.not_found
        /\ copied_msgs' = r.copied_msgs
        /\ queue' = IF r.ret THEN update_status(queue, "Info", "Forwarded msg(s)")
                    ELSE update_status(queue, "Error", "Can't forward msg(s)")
        /\ UNCHANGED <<current_msgs, selected>>

\* Model.copy_msgs_text: the messages it looks up until one is missing.
RECURSIVE copy_msgs_text(_, _, _, _, _)
copy_msgs_text(mm, nf, from_chat_id, ids, replies) ==
    IF ids = <<>> THEN [not_found |-> nf, calls |-> <<>>]
    ELSE LET g == get_message(mm, nf, from_chat_id, Head(ids), replies[Head(ids)]) IN
         IF ~g.found THEN [not_found |-> g.not_found, calls |-> g.calls]
         ELSE LET rest == copy_msgs_text(mm, g.not_found, from_chat_id, Tail(ids), replies)
              IN  [rest EXCEPT !.calls = g.calls \o @]

\* Controller.yank_msgs: y
YankMsgs(replies) ==
    LET chat_id == id_by_index(chats, current_chat)
        mm == MsgModelOf(msgs, msg_ids)
        m == current_msg(chats, current_chat, mm, current_msgs)
        ids == IF selected[chat_id] # <<>> THEN selected[chat_id] ELSE <<m.msg["id"]>>
        d == discard_selected_msgs(chats, current_chat, selected, queue)
        c == copy_msgs_text(mm, not_found, chat_id, ids, replies)
    IN  /\ SelectionFrame
        /\ caught' = IF chat_id # None /\ selected[chat_id] = <<>> /\ m.raised THEN "key" ELSE ""
        /\ UNCHANGED current_msgs
        /\ IF chat_id = None
           THEN /\ tg_calls' = <<>>
                /\ UNCHANGED <<selected, copied_msgs, not_found, queue>>
           ELSE IF selected[chat_id] = <<>> /\ m.raised
           THEN /\ tg_calls' = <<>>
                /\ UNCHANGED <<selected, copied_msgs, not_found, queue>>
           ELSE /\ copied_msgs' = <<chat_id, ids>>
                /\ selected' = d.selected
                /\ not_found' = c.not_found
                /\ tg_calls' = c.calls
                /\ queue' = update_status(d.queue, "Info", "Copied msg(s)")

\* ------------------------------------------------------------------ specification: selected messages

OtherUser == 9

\* The messages the MP can hold under one id: sent by the chat itself or by
\* another user, deletable for oneself only or for everybody, forwardable or not.
SelMsgs(chat_id, id) ==
    {[id |-> id, chat_id |-> chat_id, sender |-> s,
      can_be_deleted_only_for_self |-> b, can_be_deleted_for_all_users |-> ~b,
      can_be_forwarded |-> b] :
        s \in {[chat_id |-> chat_id], [user_id |-> OtherUser]}, b \in BOOLEAN}

\* What the MP answers to get_message for each id.
GetMessageReplies ==
    {r \in [MsgIds -> {[error |-> TRUE]}
                      \cup {[error |-> FALSE, msg |-> m] : m \in UNION {SelMsgs(1, i) : i \in MsgIds}}] :
        \A i \in MsgIds : ~r[i].error => r[i].msg["id"] = i}

\* The messages of chat 1 are on screen, every message of the chat loaded.
InitSelect ==
    /\ InitExt
    /\ chat_size = 2
    /\ chats = <<StoredChat(1, 1)>>
    /\ inactive_chats = <<>>
    /\ chat_ids = {1}
    /\ have_full_chat_list = TRUE
    /\ current_chat = 0
    /\ msgs \in {f \in [ChatIds -> {<<>>} \cup [MsgIds -> UNION {SelMsgs(1, i) : i \in MsgIds}]] :
                    /\ f[1] # <<>>
                    /\ \A i \in MsgIds : f[1][i] \in SelMsgs(1, i)
                    /\ \A c \in ChatIds \ {1} : f[c] = <<>>}
    /\ msg_ids = [c \in ChatIds |-> IF c = 1 THEN [i \in 1..MaxMsgId |-> MaxMsgId + 1 - i] ELSE <<>>]
    /\ current_msgs = [c \in ChatIds |-> 0]
    /\ queue = <<>>
    /\ is_running = TRUE
    /\ h = Rows - 1
    /\ status = ""
    /\ mode = "msg"
    /\ keys = <<>>
    /\ repeat_factor = <<>>
    /\ nread = 0
    /\ typing = None
    /\ tg_calls = <<>>
    /\ fetched = NotFetched
    /\ dispatched = [fun |-> "", repeat_factor |-> 0]

DrawSelect == Draw({[error |-> TRUE, items |-> <<>>]}, {<<>>}, FALSE)
KeyDeleteMsgs == \E replies \in GetMessageReplies : DeleteMsgs(replies)
KeyToggleSelectMsg == \E up \in BOOLEAN : ToggleSelectMsg(up)
KeyYankMsgs == \E replies \in GetMessageReplies : YankMsgs(replies)
KeyForwardMsgs == \E replies \in GetMessageReplies : ForwardMsgs(replies)
SelectedDeleted == \E id \in MsgIds : UpdateDeleteMessages(1, TRUE, <<id>>)

NextSelect ==
    \/ DrawSelect
    \/ KeyToggleSelectMsg
    \/ DiscardSelectedMsgs
    \/ KeyDeleteMsgs
    \/ KeyYankMsgs
    \/ KeyForwardMsgs
    \/ SelectedDeleted

SpecSelect == InitSelect /\ [][NextSelect]_vars

\* ------------------------------------------------------------------ properties: selected messages

CurrentChatId == id_by_index(chats, current_chat)

\* Every selected message of the current chat is stored and can be deleted
\* for all users.
SelectionPermitsDeletion ==
    /\ CurrentChatId # None
    /\ selected[CurrentChatId] # <<>>
    /\ \A i \in 1..Len(selected[CurrentChatId]) :
          /\ selected[CurrentChatId][i] \in DOMAIN msgs[CurrentChatId]
          /\ selected[CurrentChatId][i] \notin not_found
          /\ msgs[CurrentChatId][selected[CurrentChatId][i]]["can_be_deleted_for_all_users"]

CallsOf(calls, method) == SelectSeq(calls, LAMBDA c : c.method = method)

\* C11: dd typed on a non-empty selection whose messages all permit deletion
\* issues exactly one delete_messages(chat_id, the selected ids in selection
\* order, revoke = true), leaves the selection of the chat empty and puts
\* 'Info: Message deleted' in the queue as the last status of the command.
C11_DeleteSelected ==
    [][(KeyDeleteMsgs /\ SelectionPermitsDeletion) =>
          /\ CallsOf(tg_calls', "delete_messages")
                = <<Call("delete_messages", CurrentChatId, <<selected[CurrentChatId], TRUE>>, "")>>
          /\ selected'[CurrentChatId] = <<>>
          /\ queue' # <<>>
          /\ queue'[Len(queue')] = Closure("_update_status", "Info: Message deleted")]_vars

\* A copied message is stored with can_be_forwarded false, or is known to be
\* missing.
CopiedNotForwardable ==
    /\ CurrentChatId # None
    /\ \E i \in 1..Len(copied_msgs[2]) :
          \/ copied_msgs[2][i] \in not_found
          \/ /\ copied_msgs[2][i] \in DOMAIN msgs[copied_msgs[1]]
             /\ ~msgs[copied_msgs[1]][copied_msgs[2][i]]["can_be_forwarded"]

\* C12: p typed while a copied message may not be forwarded or cannot be
\* resolved issues no forward_messages, queues 'Error: Can't forward msg(s)'
\* and leaves copied_msgs as it was; copied_msgs is emptied only by a step
\* that issued forward_messages.
C12_ForwardRefused ==
    [][/\ (KeyForwardMsgs /\ (CopiedNotForwardable
                              \/ \E i \in 1..Len(tg_calls') : /\ tg_calls'[i].method = "get_message"
                                                             /\ tg_calls'[i].reply = "error")) =>
              /\ CallsOf(tg_calls', "forward_messages") = <<>>
              /\ queue' # <<>>
              /\ queue'[Len(queue')] = Closure("_update_status", "Error: Can't forward msg(s)")
              /\ copied_msgs' = copied_msgs
       /\ (copied_msgs' # copied_msgs /\ copied_msgs'[2] = <<>>) =>
              CallsOf(tg_calls', "forward_messages") # <<>>]_vars

\* p was refused: the error is queued and the buffer still holds a stored
\* message that may not be forwarded.
C12_Witness ==
    /\ CopiedNotForwardable
    /\ \E i \in 1..Len(copied_msgs[2]) : copied_msgs[2][i] \in DOMAIN msgs[copied_msgs[1]]
    /\ queue # <<>>
    /\ queue[Len(queue)] = Closure("_update_status", "Error: Can't forward msg(s)")

\* ------------------------------------------------------------------ specification: downloads

\* A message of the MP with a file of its own: an empty file, the largest one
\* that is downloaded, or one byte more.
MPFileMsg(chat_id, id, size) ==
    [id |-> id, chat_id |-> chat_id,
     file |-> [id |-> id, size |-> size, local |-> [is_downloading_completed |-> FALSE]]]
FileMsgs ==
    {MPFileMsg(1, id, size) : id \in MsgIds, size \in {0, max_download_size, max_download_size + 1}}
Files == {[id |-> id, local |-> [is_downloading_completed |-> b]] : id \in MsgIds, b \in BOOLEAN}

NewFileMessage == \E msg \in FileMsgs \cup {MPMsg(1, 1)} : UpdateNewMessage(msg)
FileUpdated == \E file \in Files : UpdateFile(file)

NextFiles ==
    \/ DrawSelect
    \/ NewFileMessage
    \/ FileUpdated
    \/ DeleteMessages

SpecFiles == InitMsgs /\ [][NextFiles]_vars

SurfaceStep ==
    \/ DrawStep /\ Head(queue).f # "close"
    \/ typing' # typing

\* C14: only the draw thread calls the drawing primitives of the terminal:
\* every step that draws for a key command or an update handler is the run of
\* a closure popped by the draw loop.
C14_OnlyDrawThreadDraws == [][SurfaceStep => DrawStep]_vars

\* ------------------------------------------------------------------ specification: the three kinds of thread

\* The key loop, the draw loop, the signal handler and an update thread, with
\* no chat to show.
NextLoops ==
    \/ Run
    \/ DrawKeys
    \/ KeyTyped
    \/ GetChInvalid
    \/ ResizeHandler
    \/ SelectedDeleted

SpecLoops == Init /\ [][NextLoops]_vars

IsPrefix(s, t) == Len(s) <= Len(t) /\ SubSeq(t, 1, Len(s)) = s

\* What the closure at the head of the queue does when it runs.
HeadApplied ==
    /\ Head(queue).f = "_update_status" => status' = Head(queue).text
    /\ Head(queue).f = "close" => ~is_running'
    /\ Head(queue).f \notin {"_update_status", "close"} => status' = status /\ is_running' = is_running

\* C15: closures are applied in the order of their submission, each at most
\* once: a step either puts closures behind those already queued, or removes
\* the closure put first and applies that one.
C15_QueueFifo ==
    [][\/ IsPrefix(queue, queue') /\ status' = status /\ is_running' = is_running
       \/ queue # <<>> /\ queue' = Tail(queue) /\ HeadApplied]_vars

\* Closures of the signal handler and of a command wait in the queue together.
C15_Witness ==
    /\ Len(queue) >= 2
    /\ queue[1].f = "_resize"
    /\ queue[2].f = "_update_status"

\* ------------------------------------------------------------------ specification: an update thread beside the draw loop

\* update_message_send_succeeded runs on a thread of the MP's client, beside the
\* draw loop: its two changes of the store are two steps.  First add_message.
SendSucceededAdd(message, old_message_id) ==
    LET chat_id == message["chat_id"]
        mm == add_message(MsgModelOf(msgs, msg_ids), chat_id, message)
    IN  /\ upd = <<>>
        /\ Len(msg_ids[chat_id]) <= MaxIndexLen
        /\ upd' = <<message, old_message_id>>
        /\ msgs' = mm.msgs
        /\ msg_ids' = mm.msg_ids
        /\ tg_calls' = <<>>
        /\ fetched' = NotFetched
        /\ UNCHANGED <<selected, copied_msgs, downloads, not_found, chat_size, long_msg, callVars>> /\ caught' = ""
        /\ UNCHANGED <<chatVars, current_msgs, ctlVars, inputVars, dispatched>>

\* Then remove_messages and render_msgs.
SendSucceededRemove ==
    /\ upd # <<>>
    /\ Len(queue) < MaxQueue
    /\ LET chat_id == upd[1]["chat_id"]
           mm == remove_messages(MsgModelOf(msgs, msg_ids), chat_id, <<upd[2]>>)
       IN  /\ msgs' = mm.msgs
           /\ msg_ids' = mm.msg_ids
           /\ queue' = RenderMsgsIfCurrent(chat_id)
    /\ upd' = <<>>
    /\ tg_calls' = <<>>
    /\ fetched' = NotFetched
    /\ UNCHANGED <<selected, copied_msgs, downloads, not_found, chat_size, long_msg, callVars>> /\ caught' = ""
    /\ UNCHANGED <<chatVars, current_msgs, is_running, h, status, inputVars, dispatched>>

SendSucceededStarts ==
    \E id \in MsgIds, old \in MsgIds : SendSucceededAdd(MPMsg(1, id), old)

NextRace ==
    \/ DrawSelect
    \/ NewMessage
    \/ SendSucceededStarts
    \/ SendSucceededRemove

SpecRace == InitMsgs /\ [][NextRace]_vars

\* C16: an update handler is atomic for the draw thread: no closure of the draw
\* loop runs between two changes the same handler makes to the Model, such as
\* the add and the remove of updateMessageSendSucceeded.
C16_HandlersAtomic == [][DrawStep => upd = <<>>]_vars

\* ------------------------------------------------------------------ properties: quit, failures, modes

CloseCount(q) == Len(SelectSeq(q, LAMBDA c : c.f = "close"))

\* The key loops end: a command returned QUIT, in the chat list or in the messages.
QuitStep == mode' = "quit" /\ mode # "quit"

\* C17: when a command returns QUIT exactly one close is put in the queue,
\* behind every closure put before it, and nothing else ever puts one; the
\* draw loop removes closures from the head only, running close sets
\* is_running to false, and after that no closure is removed any more.
C17_QuitEndsDrawLoop ==
    [][/\ QuitStep => queue' = Append(queue, Closure("close", ""))
       /\ ~QuitStep => CloseCount(queue') <= CloseCount(queue)
       /\ Len(queue') < Len(queue) =>
             /\ is_running
             /\ queue' = Tail(queue)
             /\ Head(queue).f = "close" => ~is_running'
       /\ ~is_running => ~is_running']_vars

\* close has run while a closure put after it is left in the queue.
C17_Witness ==
    /\ mode = "quit"
    /\ ~is_running
    /\ queue # <<>>
    /\ CloseCount(queue) = 0

\* The messages of chat 1 on screen, while the history requests may fail, the
\* cursor may be left outside the index and a download may lose its message.
DrawFail == Draw({[error |-> TRUE, items |-> <<>>]}, {<<>>}, TRUE)
NewFailMessage ==
    \E msg \in {MPFileMsg(1, 1, max_download_size), MPMsg(1, 1), MPMsg(1, 2)} : UpdateNewMessage(msg)

NextFail ==
    \/ DrawFail
    \/ NewFailMessage
    \/ FileUpdated
    \/ SelectedDeleted
    \/ KeyPrevMsg

SpecFail == InitMsgs /\ [][NextFail]_vars

\* C18: an exception raised in the body of an update handler, in a key command
\* or in a closure of the draw loop ends no loop: the wrapper returns (the
\* update thread takes the next update), the key loop stays in its mode, and
\* the draw loop, the closure removed, stays running.
C18_FailureIsolation ==
    [][caught' # "" =>
          /\ is_running' = is_running
          /\ mode' = mode
          /\ typing' = typing
          /\ caught' = "draw" => is_running /\ queue' = Tail(queue)
          /\ caught' # "draw" => IsPrefix(queue, queue')]_vars

\* A closure has raised and the draw loop has another one to run.
C18_Witness ==
    /\ caught = "draw"
    /\ is_running
    /\ queue # <<>>

\* A key loop has read a whole binding and run its command.
DispatchStep == (KeyTyped \/ GetChInvalid) /\ nread' = 0

\* C19: the messages are entered only by handle_msgs typed in the chat list,
\* the chat pane taking 0.2 of the width; BACK in the messages returns to the
\* keys of the chat list, resets the share to 0.5 and queues one resize; QUIT
\* in the messages ends the loop of the chat list too and resets no size.
C19_ModalDispatch ==
    [][/\ (mode' = "msg" /\ mode # "msg") =>
             /\ mode = "chat"
             /\ DispatchStep
             /\ dispatched'.fun = "handle_msgs"
             /\ chat_size' = 2
       /\ (mode = "msg" /\ DispatchStep /\ dispatched'.fun = "back") =>
             /\ mode' = "chat"
             /\ chat_size' = 5
             /\ queue' = Append(queue, Closure("_resize", ""))
       /\ (mode = "msg" /\ DispatchStep /\ dispatched'.fun = "quit") =>
             /\ mode' = "quit"
             /\ chat_size' = chat_size
             /\ chat_size' = 2
       /\ (mode = "msg" /\ mode' # "msg") => DispatchStep /\ dispatched'.fun \in {"back", "quit"}]_vars

\* q was typed in the messages: the loops have ended with the panes as they were.
C19_Witness ==
    /\ mode = "quit"
    /\ chat_size = 2
    /\ dispatched.fun = "quit"

\* ------------------------------------------------------------------ replying with a long message

\* A text is the sequence of its characters.
REPLY_MSG_PREFIX == <<"#", " ", ">">>

\* str.split("\n"): the lines of a text, one more than its newlines
RECURSIVE split(_)
split(s) ==
    IF \A i \in 1..Len(s) : s[i] # "\n" THEN <<s>>
    ELSE LET n == CHOOSE i \in 1..Len(s) : s[i] = "\n" /\ \A j \in 1..i - 1 : s[j] # "\n"
         IN  <<SubSeq(s, 1, n - 1)>> \o split(SubSeq(s, n + 1, Len(s)))

\* "\n".join(lines)
RECURSIVE join(_)
join(lines) ==
    IF lines = <<>> THEN <<>>
    ELSE IF Len(lines) = 1 THEN lines[1]
    ELSE lines[1] \o <<"\n">> \o join(Tail(lines))

\* str.strip(): the whitespace at both ends is removed
RECURSIVE strip(_)
strip(s) ==
    IF s = <<>> THEN s
    ELSE IF s[1] \in {" ", "\n"} THEN strip(Tail(s))
    ELSE IF s[Len(s)] \in {" ", "\n"} THEN strip(SubSeq(s, 1, Len(s) - 1))
    ELSE s

\* insert_replied_msg, text being the text of the replied message (or the name
\* of its content type)
insert_replied_msg(text) ==
    IF text = <<>> THEN <<>>
    ELSE join([i \in 1..Len(split(text)) |-> REPLY_MSG_PREFIX \o <<" ">> \o split(text)[i]])
         \o <<"\n", " ">>

\* strip_replied_msg
strip_replied_msg(msg) ==
    join(SelectSeq(split(msg), LAMBDA line : ~StartsWith(line, REPLY_MSG_PREFIX)))

\* Controller.reply_with_long_message from the return of the editor on: body is
\* what was typed behind the quoted message.
LongMsgWritten(body) ==
    LET chat_id == id_by_index(chats, current_chat)
        file == long_msg.file \o body
        replied_msg == strip_replied_msg(strip(file))
    IN  /\ long_msg.stage = "editor"
        /\ long_msg' = [long_msg EXCEPT !.stage = "done", !.file = file, !.sent = replied_msg]
        /\ IF replied_msg # <<>>
           THEN /\ tg_calls' = <<Call("view_messages", chat_id,
                                      <<chats[current_chat + 1]["last_message"]["id"]>>, ""),
                                 Call("reply_message", chat_id,
                                      <<msg_ids[chat_id][current_msgs[chat_id] + 1], replied_msg>>, "")>>
                /\ queue' = update_status(queue, "Info", "Message sent")
           ELSE /\ tg_calls' = <<>>
                /\ queue' = update_status(queue, "Info", "Message wasn't sent")
        /\ fetched' = NotFetched
        /\ caught' = ""
        /\ UNCHANGED <<selected, copied_msgs, downloads, not_found, upd, chat_size, callVars>>
        /\ UNCHANGED <<chatVars, msgVars, is_running, h, status, inputVars, dispatched>>

\* ------------------------------------------------------------------ replying with a long message: specification

MaxTextLen == 2
MaxBodyLen == 4
Chars == {"a", " ", "\n", "#", ">"}

\* R was typed on message 1 of chat 1, whose text is any short text: the editor
\* is open on the file insert_replied_msg wrote.
InitReply ==
    \E text \in SeqsUpTo(Chars, MaxTextLen) :
        /\ chats = <<StoredChat(1, 1)>>
        /\ inactive_chats = <<>>
        /\ chat_ids = {1}
        /\ have_full_chat_list = TRUE
        /\ current_chat = 0
        /\ msgs = [c \in ChatIds |-> IF c = 1 THEN <<[id |-> 1, chat_id |-> 1, text |-> text]>>
                                     ELSE <<>>]
        /\ msg_ids = [c \in ChatIds |-> IF c = 1 THEN <<1>> ELSE <<>>]
        /\ current_msgs = [c \in ChatIds |-> 0]
        /\ queue = <<>>
        /\ is_running = TRUE
        /\ h = Rows - 1
        /\ status = ""
        /\ mode = "msg"
        /\ keys = <<>>
        /\ repeat_factor = <<>>
        /\ nread = 0
        /\ typing = None
        /\ tg_calls = <<>>
        /\ fetched = NotFetched
        /\ dispatched = [fun |-> "reply_with_long_message", repeat_factor |-> 1]
        /\ selected = [c \in ChatIds |-> <<>>]
        /\ copied_msgs = <<0, <<>>>>
        /\ downloads = <<>>
        /\ not_found = {}
        /\ upd = <<>>
        /\ caught = ""
        /\ chat_size = 2
        /\ long_msg = [stage |-> "editor", replied |-> text,
                       file |-> insert_replied_msg(text), sent |-> <<>>]
        /\ truncated = NoTruncated
        /\ fetched_chats = NoFetchedChats
        /\ chat_upd = <<>>
        /\ store_ops = NoStoreOps
        /\ found_chat_idx = 0
        /\ found_chats = <<>>
        /\ suspending = FALSE
        /\ view = ViewInit

EditorReturns == \E body \in SeqsUpTo(Chars, MaxBodyLen) : LongMsgWritten(body)

NextReply ==
    \/ EditorReturns
    \/ DrawSelect

SpecReply == InitReply /\ [][NextReply]_vars

\* What was typed behind the quoted message.
TypedBody == SubSeq(long_msg.file, Len(insert_replied_msg(long_msg.replied)) + 1, Len(long_msg.file))

\* C20: for any replied text and any body, strip_replied_msg of the trimmed
\* text made of insert_replied_msg and the body is the body.
C20_ReplyRoundTrip == long_msg.stage = "done" => long_msg.sent = TypedBody

\* ------------------------------------------------------------------ utils: the width of a string on the screen

\* unicodedata.east_asian_width on the characters of the model: "W" stands for
\* a wide character (two columns), "a" for a narrow one.
east_asian_width(c) == IF c = "W" THEN "W" ELSE "Na"

\* utils.string_len_dwc
RECURSIVE string_len_dwc(_)
string_len_dwc(string) ==
    IF string = <<>> THEN 0
    ELSE 1 + (IF east_asian_width(Head(string)) \in {"W", "F"} THEN 1 ELSE 0)
           + string_len_dwc(Tail(string))

\* The for loop of utils.truncate_to_len from one character on: the character
\* is counted and appended first, the width is compared afterwards.
RECURSIVE TruncateLoop(_, _, _, _)
TruncateLoop(string, width, cur_len, out_string) ==
    IF string = <<>> THEN out_string
    ELSE LET char == Head(string)
             len == cur_len + (IF east_asian_width(char) \in {"W", "F"} THEN 2 ELSE 1)
             out == Append(out_string, char)
         IN  IF len >= width THEN out
             ELSE TruncateLoop(Tail(string), width, len, out)

\* utils.truncate_to_len
truncate_to_len(string, width) ==
    IF string_len_dwc(string) <= width THEN string
    ELSE TruncateLoop(string, width, 0, <<>>)

\* A view truncates the string it is about to draw.
TruncateToLen ==
    /\ truncated.stage = "call"
    /\ truncated' = [truncated EXCEPT !.stage = "done",
                                     !.out = truncate_to_len(truncated.string, truncated.width)]
    /\ UNCHANGED <<chatVars, msgVars, ctlVars, inputVars, histVars, chat_size, caught>>
    /\ UNCHANGED <<selected, copied_msgs, downloads, not_found, upd, long_msg, fetched_chats, view, suspending, found_chats, found_chat_idx, store_ops, chat_upd>>

\* ------------------------------------------------------------------ utils: specification

MaxStringLen == 4
MaxWidth == 5
WidthChars == {"a", "W"}

\* truncate_to_len is about to be called on any short string of narrow and wide
\* characters and any small width; the program is as after construction.
InitTrunc ==
    \E string \in SeqsUpTo(WidthChars, MaxStringLen), width \in 0..MaxWidth :
        /\ chats = <<>>
        /\ inactive_chats = <<>>
        /\ chat_ids = {}
        /\ have_full_chat_list = FALSE
        /\ current_chat = 0
        /\ msgs = [c \in ChatIds |-> <<>>]
        /\ msg_ids = [c \in ChatIds |-> <<>>]
        /\ current_msgs = [c \in ChatIds |-> 0]
        /\ queue = <<>>
        /\ is_running = TRUE
        /\ h = 0
        /\ status = ""
        /\ mode = "init"
        /\ keys = <<>>
        /\ repeat_factor = <<>>
        /\ nread = 0
        /\ typing = None
        /\ tg_calls = <<>>
        /\ fetched = NotFetched
        /\ dispatched = [fun |-> "", repeat_factor |-> 0]
        /\ selected = [c \in ChatIds |-> <<>>]
        /\ copied_msgs = <<0, <<>>>>
        /\ downloads = <<>>
        /\ not_found = {}
        /\ upd = <<>>
        /\ caught = ""
        /\ chat_size = 5
        /\ long_msg = NoLongMsg
        /\ truncated = [stage |-> "call", string |-> string, width |-> width, out |-> <<>>]
        /\ fetched_chats = NoFetchedChats
        /\ chat_upd = <<>>
        /\ store_ops = NoStoreOps
        /\ found_chat_idx = 0
        /\ found_chats = <<>>
        /\ suspending = FALSE
        /\ view = ViewInit

NextTrunc == TruncateToLen

SpecTrunc == InitTrunc /\ [][NextTrunc]_vars

\* C21: truncate_to_len(s, w) returns a prefix of s whose width, measured by
\* string_len_dwc, is at most w.
C21_TruncateFits ==
    truncated.stage = "done" =>
        /\ IsPrefix(truncated.out, truncated.string)
        /\ string_len_dwc(truncated.out) <= truncated.width

\* ------------------------------------------------------------------ the messages: moving the cursor

\* C22: k with step s on a non-empty index sets the cursor of the chat to
\* min(cursor + s, len(index) - 1), and MsgModel.prev_msg returns true exactly
\* when the cursor changed.
C22_PrevMsgClamps ==
    [][\A step \in 1..MaxRepeat :
          PrevMsg(step) /\ msg_ids[1] # <<>> =>
              /\ current_msgs'[1] = Min(current_msgs[1] + step, Len(msg_ids[1]) - 1)
              /\ prev_msg(current_msgs[1], msg_ids[1], step).ret <=> current_msgs'[1] # current_msgs[1]]_vars

\* ------------------------------------------------------------------ the messages: jumping to the replied message

\* list.index: the position of the first x in s, counted from 0; the list must hold x.
index(s, x) == (CHOOSE i \in 1..Len(s) : s[i] = x /\ \A j \in 1..i - 1 : s[j] # x) - 1

\* MsgModel.jump_to_msg_by_id: list.index raises when the id is not in the
\* index, and the position it returns is used as the condition of the if.
jump_to_msg_by_id(cur, ids, msg_id) ==
    IF \A i \in 1..Len(ids) : ids[i] # msg_id THEN [cur |-> cur, ret |-> FALSE, raised |-> TRUE]
    ELSE IF index(ids, msg_id) # 0 THEN [cur |-> index(ids, msg_id), ret |-> TRUE, raised |-> FALSE]
    ELSE [cur |-> cur, ret |-> FALSE, raised |-> FALSE]

\* Controller.jump_to_reply_msg: m
JumpToReplyMsg ==
    LET chat_id == id_by_index(chats, current_chat)
        m == current_msg(chats, current_chat, MsgModelOf(msgs, msg_ids), current_msgs)
        reply_msg_id == m.msg["reply_to_message_id"]
        j == jump_to_msg_by_id(current_msgs[chat_id], msg_ids[chat_id], reply_msg_id)
    IN  /\ mode = "msg"
        /\ typing = None
        /\ Len(queue) < MaxQueue
        /\ tg_calls' = <<>>
        /\ fetched' = NotFetched
        /\ UNCHANGED <<extVars, chat_size>>
        /\ UNCHANGED <<chatVars, msgs, msg_ids, is_running, h, status, inputVars, dispatched>>
        /\ IF chat_id = None
           THEN UNCHANGED <<current_msgs, queue>> /\ caught' = ""
           ELSE IF m.raised
           THEN UNCHANGED <<current_msgs, queue>> /\ caught' = "key"
           ELSE IF reply_msg_id = None
           THEN /\ queue' = update_status(queue, "Error", "This msg does not reply")
                /\ UNCHANGED current_msgs /\ caught' = ""
           ELSE IF j.raised
           THEN UNCHANGED <<current_msgs, queue>> /\ caught' = "key"
           ELSE IF ~j.ret
           THEN /\ queue' = update_status(queue, "Error",
                                          "Can't jump to reply msg: it's not preloaded or deleted")
                /\ UNCHANGED current_msgs /\ caught' = ""
           ELSE /\ current_msgs' = [current_msgs EXCEPT ![chat_id] = j.cur]
                /\ queue' = put(queue, "_render_msgs")
                /\ caught' = ""

\* ------------------------------------------------------------------ jumping to the replied message: specification

\* The messages of chat 1 are on screen, every message of the chat loaded; each
\* message replies to nothing (None), to a message of the chat or to a message
\* that is not loaded (MaxMsgId + 1).
InitJump ==
    \E r \in [MsgIds -> 0..MaxMsgId + 1] :
        /\ InitExt
        /\ chat_size = 2
        /\ chats = <<StoredChat(1, 1)>>
        /\ inactive_chats = <<>>
        /\ chat_ids = {1}
        /\ have_full_chat_list = TRUE
        /\ current_chat = 0
        /\ msgs = [c \in ChatIds |->
                      IF c = 1 THEN [i \in MsgIds |-> [id |-> i, chat_id |-> 1, reply_to_message_id |-> r[i]]]
                      ELSE <<>>]
        /\ msg_ids = [c \in ChatIds |-> IF c = 1 THEN [i \in 1..MaxMsgId |-> MaxMsgId + 1 - i] ELSE <<>>]
        /\ current_msgs = [c \in ChatIds |-> 0]
        /\ queue = <<>>
        /\ is_running = TRUE
        /\ h = Rows - 1
        /\ status = ""
        /\ mode = "msg"
        /\ keys = <<>>
        /\ repeat_factor = <<>>
        /\ nread = 0
        /\ typing = None
        /\ tg_calls = <<>>
        /\ fetched = NotFetched
        /\ dispatched = [fun |-> "", repeat_factor |-> 0]

NextJump ==
    \/ DrawSelect
    \/ JumpToReplyMsg
    \/ KeyNextMsg
    \/ KeyPrevMsg
    \/ SelectedDeleted

SpecJump == InitJump /\ [][NextJump]_vars

\* ------------------------------------------------------------------ properties: jumping to the replied message

\* The id the message under the cursor of chat 1 replies to; None when there is
\* no such message or it does not reply.
ReplyMsgId ==
    LET m == current_msg(chats, current_chat, MsgModelOf(msgs, msg_ids), current_msgs)
    IN  IF m.raised \/ m.msg = <<>> THEN None ELSE m.msg["reply_to_message_id"]

InIndex(msg_id) == \E i \in 1..Len(msg_ids[1]) : msg_ids[1][i] = msg_id

\* C23: m on a message that replies to an id of the index, at any position,
\* sets the cursor to that position and reports success (the messages are
\* rendered).
C23_JumpToLoaded ==
    [][JumpToReplyMsg /\ ReplyMsgId # None /\ InIndex(ReplyMsgId) =>
          /\ current_msgs'[1] = index(msg_ids[1], ReplyMsgId)
          /\ jump_to_msg_by_id(current_msgs[1], msg_ids[1], ReplyMsgId).ret
          /\ queue' = put(queue, "_render_msgs")]_vars

\* C24: m on a message that replies to an id absent from the index puts the
\* error "Can't jump to reply msg: it's not preloaded or deleted" in the status
\* pane and leaves the cursor where it was.
C24_JumpToMissing ==
    [][JumpToReplyMsg /\ ReplyMsgId # None /\ ~InIndex(ReplyMsgId) =>
          /\ queue' = update_status(queue, "Error",
                                    "Can't jump to reply msg: it's not preloaded or deleted")
          /\ current_msgs' = current_msgs]_vars

\* ------------------------------------------------------------------ the messages: looking one message up

\* One call of MsgModel.get_message, as MsgView._format_reply_msg makes for the
\* message a drawn message replies to; reply is what the MP answers if asked.
GetMessage(chat_id, msg_id, reply) ==
    LET g == get_message(MsgModelOf(msgs, msg_ids), not_found, chat_id, msg_id, reply)
    IN  /\ not_found' = g.not_found
        /\ tg_calls' = g.calls
        /\ fetched' = NotFetched
        /\ caught' = ""
        /\ UNCHANGED <<selected, copied_msgs, downloads, upd, long_msg, callVars, chat_size>>
        /\ UNCHANGED <<chatVars, msgVars, ctlVars, inputVars, dispatched>>

\* ------------------------------------------------------------------ looking one message up: specification

\* The ids of S, newest first.
IdsDesc(S) == SelectSeq([i \in 1..MaxMsgId |-> MaxMsgId + 1 - i], LAMBDA x : x \in S)

\* Two chats are loaded, chat 2 on screen; each holds any of the messages.
InitGet ==
    \E stored \in [ChatIds -> SUBSET MsgIds] :
        /\ InitExt
        /\ chat_size = 2
        /\ chats = [i \in 1..MaxChatId |-> StoredChat(MaxChatId + 1 - i, MaxChatId + 1 - i)]
        /\ inactive_chats = <<>>
        /\ chat_ids = ChatIds
        /\ have_full_chat_list = TRUE
        /\ current_chat = 0
        /\ msgs = [c \in ChatIds |-> [i \in stored[c] |-> MPMsg(c, i)]]
        /\ msg_ids = [c \in ChatIds |-> IdsDesc(stored[c])]
        /\ current_msgs = [c \in ChatIds |-> 0]
        /\ queue = <<>>
        /\ is_running = TRUE
        /\ h = Rows - 1
        /\ status = ""
        /\ mode = "msg"
        /\ keys = <<>>
        /\ repeat_factor = <<>>
        /\ nread = 0
        /\ typing = None
        /\ tg_calls = <<>>
        /\ fetched = NotFetched
        /\ dispatched = [fun |-> "", repeat_factor |-> 0]

\* What the MP answers to get_message(chat_id, msg_id).
GetReplies(chat_id, msg_id) == {[error |-> TRUE], [error |-> FALSE, msg |-> MPMsg(chat_id, msg_id)]}

MessageLookedUp ==
    \E chat_id \in ChatIds, msg_id \in MsgIds :
        \E reply \in GetReplies(chat_id, msg_id) : GetMessage(chat_id, msg_id, reply)
GetDeleteMessages == \E chat_id \in ChatIds, id \in MsgIds : UpdateDeleteMessages(chat_id, TRUE, <<id>>)

NextGet ==
    \/ MessageLookedUp
    \/ GetDeleteMessages
    \/ DrawSelect

SpecGet == InitGet /\ [][NextGet]_vars

\* ------------------------------------------------------------------ properties: looking one message up

\* get_message(chat_id, msg_id) finds nothing in the cache and asks the MP.
Missed(chat_id, msg_id) == msg_id \notin not_found /\ msg_id \notin DOMAIN msgs[chat_id]

\* C25: a get that misses the cache stores the record when the MP answers with
\* it, and records the id in not_found when the MP fails; a get of a stored
\* record or of an id in not_found issues no MP call.
C25_GetCachesOnMiss ==
    [][\A chat_id \in ChatIds, msg_id \in MsgIds : \A reply \in GetReplies(chat_id, msg_id) :
          GetMessage(chat_id, msg_id, reply) =>
              /\ Missed(chat_id, msg_id) /\ ~reply.error =>
                     msg_id \in DOMAIN msgs'[chat_id] /\ msgs'[chat_id][msg_id] = reply.msg
              /\ Missed(chat_id, msg_id) /\ reply.error => msg_id \in not_found'
              /\ ~Missed(chat_id, msg_id) => tg_calls' = <<>>]_vars

\* C26: whenever msgs[chat_id] holds msg_id, get_message(chat_id, msg_id)
\* returns that record.
C26_GetCacheFirst ==
    [][\A chat_id \in ChatIds, msg_id \in MsgIds : \A reply \in GetReplies(chat_id, msg_id) :
          GetMessage(chat_id, msg_id, reply) /\ msg_id \in DOMAIN msgs[chat_id] =>
              LET g == get_message(MsgModelOf(msgs, msg_ids), not_found, chat_id, msg_id, reply)
              IN  g.found /\ g.msg = msgs[chat_id][msg_id]]_vars

\* ------------------------------------------------------------------ the chats: fetching a window

\* One call of ChatModel.fetch_chats(offset, limit), reply being what the MP
\* answers if _load_next_chats asks it.
FetchChats(offset, limit, reply) ==
    LET r == fetch_chats(ChatModelOf(chats, inactive_chats, chat_ids), have_full_chat_list,
                         offset, limit, reply)
    IN  /\ chats' = r.cm.chats
        /\ inactive_chats' = r.cm.inactive_chats
        /\ chat_ids' = r.cm.chat_ids
        /\ have_full_chat_list' = r.full
        /\ tg_calls' = r.calls
        /\ fetched' = NotFetched
        /\ caught' = IF r.raised THEN "draw" ELSE ""
        /\ fetched_chats' = [stage |-> IF r.raised THEN "raised" ELSE "done",
                             offset |-> offset, limit |-> limit,
                             ret |-> IF r.raised THEN <<>> ELSE r.ret]
        /\ UNCHANGED <<selected, copied_msgs, downloads, not_found, upd, long_msg, truncated, chat_size, view, suspending, found_chats, found_chat_idx, store_ops, chat_upd>>
        /\ UNCHANGED <<current_chat, msgVars, ctlVars, inputVars, dispatched>>

\* ------------------------------------------------------------------ fetching a window: specification

MaxOffset == 2
MaxLimit == 3

ChatsFetched ==
    \E offset \in 0..MaxOffset, limit \in 0..MaxLimit, reply \in ChatReplies :
        FetchChats(offset, limit, reply)

NextFetch == ChatsFetched

SpecFetch == Init /\ [][NextFetch]_vars

\* C27: fetch_chats(offset, limit) returns the slice of the active list, as it
\* stands after the optional load, that starts at offset and holds up to limit
\* chats.
C27_FetchChatsSlice ==
    fetched_chats.stage = "done" =>
        fetched_chats.ret = PySlice(chats, fetched_chats.offset,
                                    fetched_chats.offset + fetched_chats.limit)

\* ------------------------------------------------------------------ properties: promoting an inactive chat

\* C28: update_chat_position with a non-zero order on a chat held in inactive
\* leaves the chat in the active list with that order and out of inactive, and
\* update_chat returns true.
C28_InactivePromoted ==
    [][\A chat_id \in ChatIds, order \in Orders \ {0} :
          UpdateChatPosition(chat_id, order) /\ chat_id \in DOMAIN inactive_chats
                                             /\ chat_id \notin ActiveIds =>
              /\ \E i \in 1..Len(chats') : chats'[i]["id"] = chat_id /\ chats'[i]["order"] = order
              /\ chat_id \notin DOMAIN inactive_chats'
              /\ update_chat(ChatModelOf(chats, inactive_chats, chat_ids), chat_id,
                             [order |-> order]).ret]_vars

\* ------------------------------------------------------------------ properties: the history requests of one fetch

\* C29: one fetch of messages, whatever pages the MP delivers, issues at most
\* three get_chat_history requests.
C29_FetchRequestBound ==
    [][DrawStep => Len(CallsOf(tg_calls', "get_chat_history")) <= 3]_vars

\* ------------------------------------------------------------------ properties: the repeat factor

\* C30: the digits typed before a binding are its repeat factor, however many
\* they are: a digit is added to the factor and dispatches nothing, a key that
\* leaves the buffer a proper prefix of a binding and no binding itself is kept
\* for the next key, and the key that completes a binding dispatches it with
\* the value of the digits (1 without digits).
C30_RepeatPrefix ==
    [][\A key \in TypedKeys :
          GetCh(key) =>
              /\ key \in Digits =>
                     repeat_factor' = Append(repeat_factor, key) /\ dispatched' = dispatched
              /\ key \notin Digits /\ ~MatchFound(Append(keys, key))
                                   /\ Append(keys, key) \notin DOMAIN Handlers =>
                     keys' = Append(keys, key) /\ repeat_factor' = repeat_factor
                                               /\ dispatched' = dispatched
              /\ key \notin Digits /\ Append(keys, key) \in DOMAIN Handlers
                                   /\ MatchFound(Append(keys, key)) =>
                     dispatched' = [fun |-> Handlers[Append(keys, key)],
                                    repeat_factor |-> num(repeat_factor, 1)]]_vars

\* ------------------------------------------------------------------ properties: deleted messages

\* The elements of the list s.
Elems(s) == {s[i] : i \in 1..Len(s)}

\* C31: updateDeleteMessages that is not permanent changes nothing of the Model
\* and queues nothing; a permanent one removes the listed ids, and only them,
\* from the index and the mapping of that chat, whether they are stored or not.
C31_DeleteMessages ==
    [][\A is_permanent \in BOOLEAN, ids \in SeqsUpTo(MsgIds, MaxPageLen) :
          UpdateDeleteMessages(1, is_permanent, ids) =>
              IF ~is_permanent
              THEN UNCHANGED <<chatVars, msgVars, selected, copied_msgs, queue>>
              ELSE /\ msg_ids' = [msg_ids EXCEPT ![1] = SelectSeq(@, LAMBDA x : x \notin Elems(ids))]
                   /\ msgs' = [msgs EXCEPT ![1] = [x \in DOMAIN @ \ Elems(ids) |-> @[x]]]
                   /\ UNCHANGED <<chatVars, current_msgs, selected, copied_msgs>>]_vars

\* ------------------------------------------------------------------ properties: the typing action

\* C32: write_short_msg sends the typing action before the text is entered,
\* and sends nothing in a chat that does not permit sending; when the entry
\* ends, exactly one of the two follows: one send_message for the chat the
\* typing action went to, or one cancel action for it.
C32_TypingProtocol ==
    [][/\ WriteShortMsg =>
              /\ typing' # None <=> tg_calls' = <<Call("send_chat_action", typing', <<"chatActionTyping">>, "")>>
              /\ typing' = None => tg_calls' = <<>>
       /\ \A cancelled \in BOOLEAN, buff \in Texts :
              InputDone(cancelled, buff) =>
                  LET sends == CallsOf(tg_calls', "send_message")
                      actions == CallsOf(tg_calls', "send_chat_action")
                  IN  \/ Len(sends) = 1 /\ sends[1].chat_id = typing /\ actions = <<>>
                      \/ sends = <<>>
                         /\ actions = <<Call("send_chat_action", typing, <<"chatActionCancel">>, "")>>]_vars

\* ------------------------------------------------------------------ utils.suspend

Panes == {"chats", "msgs", "status"}

\* suspend.__enter__: the attributes of the view after it
__enter__(v) == [pane \in Panes \cup {"resize_handler"} |-> IF pane \in Panes THEN "noutrefresh" ELSE "resize_stub"]

\* An __exit__ that gives the panes their refresh back and leaves the stub.
ExitKeepsStub(v) == [pane \in Panes \cup {"resize_handler"} |-> IF pane \in Panes THEN "refresh" ELSE v[pane]]

\* suspend.__exit__: the attributes of the view after it
__exit__(v) == [pane \in Panes \cup {"resize_handler"} |-> IF pane \in Panes THEN "refresh" ELSE "resize"]

\* A command of the key loop enters `with suspend(self.view)`.
SuspendEnter ==
    /\ mode \in {"chat", "msg"}
    /\ typing = None
    /\ ~suspending
    /\ suspending' = TRUE
    /\ view' = __enter__(view)
    /\ tg_calls' = <<>>
    /\ fetched' = NotFetched
    /\ caught' = ""
    /\ UNCHANGED <<selected, copied_msgs, downloads, not_found, upd, long_msg, truncated, fetched_chats, chat_size, found_chats, found_chat_idx, store_ops, chat_upd>>
    /\ UNCHANGED <<chatVars, msgVars, ctlVars, inputVars, dispatched>>

\* The body of the with statement ends, by its last statement or by an
\* exception that goes on to the except clause of the key loop: __exit__ runs.
SuspendExit(raised) ==
    /\ suspending
    /\ suspending' = FALSE
    /\ view' = __exit__(view)
    /\ tg_calls' = <<>>
    /\ fetched' = NotFetched
    /\ caught' = IF raised THEN "key" ELSE ""
    /\ UNCHANGED <<selected, copied_msgs, downloads, not_found, upd, long_msg, truncated, fetched_chats, chat_size, found_chats, found_chat_idx, store_ops, chat_upd>>
    /\ UNCHANGED <<chatVars, msgVars, ctlVars, inputVars, dispatched>>

\* The panes a closure of the draw loop draws, each ending in self._refresh().
PanesOf(f) ==
    CASE f = "_update_status" -> {"status"}
      [] f = "_render_chats" -> {"chats"}
      [] f = "_render_msgs" -> {"msgs"}
      [] f \in {"_render", "_resize"} -> {"chats", "msgs"}
      [] OTHER -> {}

\* The closure f, run with the view v, displays to the terminal.
Displays(f, v) == \E pane \in PanesOf(f) : v[pane] = "refresh"

\* ------------------------------------------------------------------ utils.suspend: specification

SuspendLeft == \E raised \in BOOLEAN : SuspendExit(raised)

NextSuspend ==
    \/ Run
    \/ DrawKeys
    \/ ResizeHandler
    \/ NewChat
    \/ ChatTitle
    \/ SuspendEnter
    \/ SuspendLeft

SpecSuspend == Init /\ [][NextSuspend]_vars

\* C33: while a suspend scope is active every pane refreshes with noutrefresh
\* and the resize handler of the view is the stub, so no closure of the draw
\* loop displays; once the scope is left, normally or by an exception, the
\* panes refresh with win.refresh and the resize handler is View.resize.
C33_SuspendScope ==
    [][/\ suspending' => view' = __enter__(ViewInit)
       /\ ~suspending' => view' = ViewInit
       /\ DrawStep /\ suspending => ~Displays(Head(queue).f, view)]_vars

\* A closure of the draw loop ran, and asked the MP, inside a suspend scope.
C33_Witness == suspending /\ tg_calls # <<>>

\* ------------------------------------------------------------------ properties: dd refused

\* The message does not permit deletion in chat_id: only_for_self is what
\* counts for a message the chat itself sent, for_all_users for the others.
DeletionForbidden(chat_id, msg) ==
    IF "chat_id" \in DOMAIN msg["sender"] /\ msg["sender"]["chat_id"] = chat_id
    THEN ~msg["can_be_deleted_only_for_self"]
    ELSE ~msg["can_be_deleted_for_all_users"]

\* The message under the cursor of the current chat, when there is one.
HasCurrentMsg ==
    /\ CurrentChatId # None
    /\ current_msgs[CurrentChatId] < Len(msg_ids[CurrentChatId])
    /\ msg_ids[CurrentChatId][current_msgs[CurrentChatId] + 1] \in DOMAIN msgs[CurrentChatId]
CurrentMsg == msgs[CurrentChatId][msg_ids[CurrentChatId][current_msgs[CurrentChatId] + 1]]

\* Nothing is selected and the current message does not permit deletion, or a
\* selected message of the current chat does not.
DeletionRefused ==
    /\ CurrentChatId # None
    /\ IF selected[CurrentChatId] = <<>>
       THEN HasCurrentMsg /\ DeletionForbidden(CurrentChatId, CurrentMsg)
       ELSE \E i \in 1..Len(selected[CurrentChatId]) :
               /\ selected[CurrentChatId][i] \in DOMAIN msgs[CurrentChatId]
               /\ DeletionForbidden(CurrentChatId, msgs[CurrentChatId][selected[CurrentChatId][i]])

next_found_chat(found, idx, backwards) ==
    IF found = <<>> THEN [raised |-> TRUE, idx |-> idx, ret |-> None]
    ELSE LET new_idx == (idx + (IF backwards THEN Len(found) - 1 ELSE 1)) % Len(found)
         IN  [raised |-> FALSE, idx |-> new_idx, ret |-> found[new_idx + 1]]

\* Model.set_current_chat
set_current_chat(cs, cur, chat_idx) ==
    IF 0 < chat_idx /\ chat_idx < Len(cs) THEN [cur |-> chat_idx, ret |-> TRUE]
    ELSE [cur |-> cur, ret |-> FALSE]

\* Model.set_current_chat_by_id: next() raises when no active chat has the id.
set_current_chat_by_id(cs, cur, chat_id) ==
    IF \A i \in 1..Len(cs) : cs[i]["id"] # chat_id
    THEN [raised |-> TRUE, cur |-> cur, ret |-> FALSE]
    ELSE LET idx == (CHOOSE i \in 1..Len(cs) : cs[i]["id"] = chat_id /\ \A j \in 1..(i - 1) : cs[j]["id"] # chat_id) - 1
             r == set_current_chat(cs, cur, idx)
         IN  [raised |-> FALSE, cur |-> r.cur, ret |-> r.ret]

\* What a command of the contact search leaves alone.
SearchFrame ==
    /\ mode = "chat"
    /\ typing = None
    /\ Len(queue) < MaxQueue
    /\ fetched' = NotFetched
    /\ UNCHANGED <<chats, inactive_chats, chat_ids, have_full_chat_list, msgVars, is_running, h, status>>
    /\ UNCHANGED <<inputVars, dispatched, chat_size>>
    /\ UNCHANGED <<selected, copied_msgs, downloads, not_found, upd, long_msg, truncated, fetched_chats, view, suspending, store_ops, chat_upd>>

\* Controller.search_contacts: / with msg typed at the prompt and chat_ids
\* answered by the MP.
SearchContacts(msg, found) ==
    /\ SearchFrame
    /\ IF msg = ""
       THEN /\ queue' = update_status(queue, "Info", "Search discarded")
            /\ tg_calls' = <<>>
            /\ caught' = ""
            /\ UNCHANGED <<current_chat, found_chats, found_chat_idx>>
       ELSE /\ tg_calls' = <<Call("search_contacts", None, <<msg>>, "chats")>>
            /\ UNCHANGED found_chat_idx
            /\ IF found = <<>>
               THEN /\ queue' = update_status(queue, "Info", "Chat not found")
                    /\ caught' = ""
                    /\ UNCHANGED <<current_chat, found_chats>>
               ELSE IF found[1] \notin chat_ids
               THEN /\ queue' = update_status(queue, "Info", "Chat not loaded")
                    /\ caught' = ""
                    /\ UNCHANGED <<current_chat, found_chats>>
               ELSE LET r == set_current_chat_by_id(chats, current_chat, found[1]) IN
                    /\ found_chats' = found
                    /\ current_chat' = r.cur
                    /\ caught' = IF r.raised THEN "key" ELSE ""
                    /\ queue' = IF r.ret THEN put(queue, "_render") ELSE queue

\* Controller.next_found_chat (n) and prev_found_chat (N)
NextFoundChat(backwards) ==
    LET n == next_found_chat(found_chats, found_chat_idx, backwards)
        r == set_current_chat_by_id(chats, current_chat, n.ret)
    IN  /\ SearchFrame
        /\ tg_calls' = <<>>
        /\ found_chat_idx' = n.idx
        /\ UNCHANGED found_chats
        /\ caught' = IF n.raised \/ r.raised THEN "key" ELSE ""
        /\ current_chat' = IF n.raised THEN current_chat ELSE r.cur
        /\ queue' = IF ~n.raised /\ r.ret THEN put(queue, "_render") ELSE queue

\* ------------------------------------------------------------------ the contact search: specification

MaxFound == 2

KeySearchContacts == \E msg \in Texts, found \in SeqsUpTo(ChatIds, MaxFound) : SearchContacts(msg, found)
KeyFoundChat == \E backwards \in BOOLEAN : NextFoundChat(backwards)

NextSearch ==
    \/ Run
    \/ DrawChats
    \/ NewChat
    \/ KeyNextChat
    \/ KeySearchContacts
    \/ KeyFoundChat

SpecSearch == Init /\ [][NextSearch]_vars

\* The index of the active chat with this id.
ActiveIndex(chat_id) == (CHOOSE i \in 1..Len(chats) : chats[i]["id"] = chat_id) - 1

\* C35: a search whose first result is a chat of the active list saves the
\* found list and makes the index of that chat the current one, wherever in
\* the list the chat is, index 0 included; n and N make the chat that
\* next_found_chat returns the current one in the same way.
C35_SearchJump ==
    [][/\ \A msg \in Texts \ {""}, found \in SeqsUpTo(ChatIds, MaxFound) \ {<<>>} :
              (SearchContacts(msg, found) /\ found[1] \in ActiveIds) =>
                  /\ found_chats' = found
                  /\ current_chat' = ActiveIndex(found[1])
       /\ \A backwards \in BOOLEAN :
              (/\ NextFoundChat(backwards)
               /\ found_chats # <<>>
               /\ found_chats[found_chat_idx' + 1] \in ActiveIds) =>
                  current_chat' = ActiveIndex(found_chats[found_chat_idx' + 1])]_vars

\* ------------------------------------------------------------------ the chat store: specification

\* Chats are added by updateNewChat and by the loads of the draw loop, their
\* order is updated, and the keys move the cursor of the chat list.
NextStore ==
    \/ Run
    \/ DrawChats
    \/ NewChat
    \/ ChatOrder
    \/ KeyNextChat
    \/ KeyPrevChat
    \/ TopChat

SpecStore == Init /\ [][NextStore]_vars

\* C36: whatever chats were added, loaded and updated, one operation after
\* the other, chat_ids is the set of the ids of the chats of the active list.
C36_ChatIdsAreActive == chat_ids = ActiveIds

\* A chat was made inactive and another one stays in the active list.
C36_Witness == chats # <<>> /\ DOMAIN inactive_chats \ ActiveIds # {}

\* C38: whatever keys moved the cursor of the chat list and whatever updates
\* changed the list, an order of 0 for the current or for the last chat
\* included, current_chat is an index into the active list while the list is
\* not empty.
C38_CurrentChatInList == chats # <<>> => current_chat < Len(chats)

\* ------------------------------------------------------------------ properties: the indices of a message window

\* C39: every pair (i, msg) that fetch_msgs returns holds the message at
\* position i of the index of the chat, whatever the offset, so the pair whose
\* i is the cursor holds the message at the cursor.
C39_WindowIndices ==
    [][DrawStep =>
          \A k \in 1..Len(fetched'.msgs) :
              /\ fetched'.msgs[k][1] < Len(msg_ids'[1])
              /\ fetched'.msgs[k][2]["id"] = msg_ids'[1][fetched'.msgs[k][1] + 1]]_vars

\* ------------------------------------------------------------------ ChatModel.add_chat, statement by statement

\* What a statement of add_chat leaves alone.
StoreFrame ==
    /\ UNCHANGED <<have_full_chat_list, current_chat, msgVars, ctlVars, inputVars, histVars, chat_size, caught>>
    /\ UNCHANGED <<selected, copied_msgs, downloads, not_found, upd, long_msg>>
    /\ UNCHANGED <<truncated, fetched_chats, view, suspending, found_chats, found_chat_idx, chat_upd>>

\* add_chat up to `self.chat_ids.add`: the thread t (the draw thread in
\* _load_next_chats, the update thread in update_new_chat) returns on an id of
\* chat_ids, stores a chat of order 0 in inactive_chats, or goes on.
AddChatBegins(t, chat) ==
    LET order == IF Len(chat["positions"]) > 0 THEN chat["positions"][1]["order"] ELSE 0
        c == DictUpdate(chat, [order |-> order])
    IN  /\ store_ops[t].pc = ""
        /\ chat["id"] \notin chat_ids
        /\ IF order = 0
           THEN /\ inactive_chats' = DictUpdate(inactive_chats, chat["id"] :> c)
                /\ UNCHANGED store_ops
           ELSE /\ store_ops' = [store_ops EXCEPT ![t] = [pc |-> "add", chat |-> c, sorted |-> <<>>]]
                /\ UNCHANGED inactive_chats
        /\ UNCHANGED <<chats, chat_ids>>
        /\ StoreFrame

\* self.chat_ids.add(chat_id)
AddChatAddsId(t) ==
    /\ store_ops[t].pc = "add"
    /\ chat_ids' = chat_ids \cup {store_ops[t].chat["id"]}
    /\ store_ops' = [store_ops EXCEPT ![t].pc = "append"]
    /\ UNCHANGED <<chats, inactive_chats>>
    /\ StoreFrame

\* self.chats.append(chat)
AddChatAppends(t) ==
    /\ store_ops[t].pc = "append"
    /\ chats' = Append(chats, store_ops[t].chat)
    /\ store_ops' = [store_ops EXCEPT ![t].pc = "sort"]
    /\ UNCHANGED <<chat_ids, inactive_chats>>
    /\ StoreFrame

\* _sort_chats: sorted(self.chats, ...) makes a new list of the chats
SortChatsSorts(t) ==
    /\ store_ops[t].pc = "sort"
    /\ store_ops' = [store_ops EXCEPT ![t].pc = "assign", ![t].sorted = _sort_chats(chats)]
    /\ UNCHANGED <<chats, chat_ids, inactive_chats>>
    /\ StoreFrame

\* _sort_chats: self.chats = the new list
SortChatsAssigns(t) ==
    /\ store_ops[t].pc = "assign"
    /\ chats' = store_ops[t].sorted
    /\ store_ops' = [store_ops EXCEPT ![t] = [pc |-> "", chat |-> <<>>, sorted |-> <<>>]]
    /\ UNCHANGED <<chat_ids, inactive_chats>>
    /\ StoreFrame

\* ------------------------------------------------------------------ add_chat in two threads: specification

AddChatCalled == \E t \in StoreThreads, chat \in MPChats : AddChatBegins(t, chat)
IdAdded == \E t \in StoreThreads : AddChatAddsId(t)
ChatAppended == \E t \in StoreThreads : AddChatAppends(t)
ChatsSorted == \E t \in StoreThreads : SortChatsSorts(t)
ChatsAssigned == \E t \in StoreThreads : SortChatsAssigns(t)

NextAddRace ==
    \/ AddChatCalled
    \/ IdAdded
    \/ ChatAppended
    \/ ChatsSorted
    \/ ChatsAssigned

SpecAddRace == Init /\ [][NextAddRace]_vars

\* C37: however the add_chat of the draw thread and the add_chat of an update
\* thread interleave, once both have returned every chat added with a
\* non-zero order is in the active list exactly once: no chat is lost to the
\* sort of the other thread and no id is in the list twice.
C37_InsertionsCommute ==
    (\A t \in StoreThreads : store_ops[t].pc = "") =>
        \A chat_id \in chat_ids : Cardinality({i \in 1..Len(chats) : chats[i]["id"] = chat_id}) = 1

\* ------------------------------------------------------------------ update_chat_position, statement by statement

\* update_chat_position up to update_chat: the handler has read
\* controller.model.current_chat_id.
PositionUpdateReads(chat_id, order) ==
    /\ chat_upd = <<>>
    /\ chat_upd' = [current_chat_id |-> id_by_index(chats, current_chat), chat_id |-> chat_id, order |-> order]
    /\ tg_calls' = <<>>
    /\ fetched' = NotFetched
    /\ caught' = ""
    /\ UNCHANGED <<chatVars, msgVars, ctlVars, inputVars, dispatched, chat_size>>
    /\ UNCHANGED <<selected, copied_msgs, downloads, not_found, upd, long_msg>>
    /\ UNCHANGED <<truncated, fetched_chats, view, suspending, found_chats, found_chat_idx, store_ops>>

\* The rest of update_chat_position: update_chat and, when it returns True,
\* refresh_current_chat with the id read before.
PositionUpdateApplies ==
    LET r == update_chat(ChatModelOf(chats, inactive_chats, chat_ids), chat_upd.chat_id, [order |-> chat_upd.order])
        f == IF r.ret THEN refresh_current_chat(r.cm.chats, current_chat, queue, chat_upd.current_chat_id)
             ELSE [current_chat |-> current_chat, queue |-> queue]
    IN  /\ chat_upd # <<>>
        /\ Len(queue) < MaxQueue
        /\ chat_upd' = <<>>
        /\ chats' = r.cm.chats
        /\ inactive_chats' = r.cm.inactive_chats
        /\ chat_ids' = r.cm.chat_ids
        /\ current_chat' = f.current_chat
        /\ queue' = f.queue
        /\ tg_calls' = <<>>
        /\ fetched' = NotFetched
        /\ caught' = ""
        /\ UNCHANGED <<have_full_chat_list, msgVars, is_running, h, status, inputVars, dispatched, chat_size>>
        /\ UNCHANGED <<selected, copied_msgs, downloads, not_found, upd, long_msg>>
        /\ UNCHANGED <<truncated, fetched_chats, view, suspending, found_chats, found_chat_idx, store_ops>>

\* ------------------------------------------------------------------ the chat keys and a chat update: specification

\* The one update thread takes the next update when its handler has returned.
NewChatArrives == chat_upd = <<>> /\ NewChat
PositionUpdateArrives == \E chat_id \in ChatIds, order \in Orders : PositionUpdateReads(chat_id, order)

NextNavRace ==
    \/ Run
    \/ DrawKeys
    \/ NewChatArrives
    \/ PositionUpdateArrives
    \/ PositionUpdateApplies
    \/ KeyNextChat
    \/ KeyPrevChat
    \/ TopChat

SpecNavRace == Init /\ [][NextNavRace]_vars

\* C40: a chat key typed while update_chat_position runs is not undone by the
\* handler: when the handler returns, the current chat is the chat the key
\* moved to, as long as that chat is still in the active list.
C40_NavigationKept ==
    [][(/\ PositionUpdateApplies
        /\ CurrentChatId # None
        /\ CurrentChatId # chat_upd.current_chat_id
        /\ CurrentChatId \in ActiveIds') =>
            id_by_index(chats', current_chat') = CurrentChatId]_vars
====
